---------------------------- MODULE Spec2Model ----------------------------
(***************************************************************************)
(* Model of the mock EOR quote server (Deel, Remote, Oyster).              *)
(*                                                                         *)
(* Representation of values                                                *)
(*   strings   tuples of one-character strings, so that toUpperCase,       *)
(*             toLowerCase and includes are computed, not assumed          *)
(*   salaries  whole currency units (integers)                             *)
(*   rates     integers counting 1/RateDen (0.112 is 11200)                *)
(*   money     integer cents once rounded by round2; the unrounded values  *)
(*             are exact rationals  w + f/FracDen  cents, kept as records   *)
(*             [w, f] so that no product leaves the 32 bit range           *)
(*   fees      fixed_fees of a seed counts tenths of a cent: the jitter of *)
(*             a synchronous quote leaves it off the cent grid            *)
(***************************************************************************)
EXTENDS Integers, Sequences, FiniteSets, TLC

VARIABLES
    disk,        \* name of the content of the provider data directory now
    seedLoad,    \* per provider, the content its table was last loaded from
    contracts,   \* seedStore.contracts : provider -> (id -> StoredContract)
    quotes,      \* seedStore.quotes    : id -> QuoteRecord
    timers,      \* setTimeout callbacks scheduled and not yet run
    inflight,    \* GET /quotes/compare handlers awaiting Promise.all
    nextId,      \* number of uuids handed out by faker so far, plus one
    probe        \* input and output of a pure function under test

vars == <<disk, seedLoad, contracts, quotes, timers, inflight, nextId, probe>>

(***************************************************************************)
(* Bounds of the model                                                     *)
(***************************************************************************)
MaxIds == 2
MaxInflight == 1

(***************************************************************************)
(* Strings                                                                 *)
(***************************************************************************)
Uppers == <<"A","B","C","D","E","F","G","H","I","J","K","L","M",
            "N","O","P","Q","R","S","T","U","V","W","X","Y","Z">>
Lowers == <<"a","b","c","d","e","f","g","h","i","j","k","l","m",
            "n","o","p","q","r","s","t","u","v","w","x","y","z">>

\* the letter maps of toUpperCase and toLowerCase
UpperMap == [c \in {Lowers[i] : i \in DOMAIN Lowers} |->
                Uppers[CHOOSE i \in DOMAIN Lowers : Lowers[i] = c]]
LowerMap == [c \in {Uppers[i] : i \in DOMAIN Uppers} |->
                Lowers[CHOOSE i \in DOMAIN Uppers : Uppers[i] = c]]

UpperChar(c) == IF c \in DOMAIN UpperMap THEN UpperMap[c] ELSE c
LowerChar(c) == IF c \in DOMAIN LowerMap THEN LowerMap[c] ELSE c

toUpperCase(s) == [i \in DOMAIN s |-> UpperChar(s[i])]
toLowerCase(s) == [i \in DOMAIN s |-> LowerChar(s[i])]

includes(s, sub) ==
    \E i \in 0..(Len(s) - Len(sub)) : SubSeq(s, i + 1, i + Len(sub)) = sub

(***************************************************************************)
(* Numbers                                                                 *)
(***************************************************************************)
RateDen == 100000
FracDen == 3000

Max(a, b) == IF a >= b THEN a ELSE b
Min(a, b) == IF a <= b THEN a ELSE b

\* Math.round(n / d) for d > 0: the nearest integer, halves towards +infinity
MathRound(n, d) == (n \div d) + (IF 2 * (n % d) >= d THEN 1 ELSE 0)

\* the exact rational a * b / d (d divides FracDen) as whole part and fraction
MulFrac(a, b, d) ==
    [w |-> (a \div d) * b + ((a % d) * b) \div d,
     f |-> (((a % d) * b) % d) * (FracDen \div d)]

\* the exact amount of n / d cents (d divides FracDen)
Frac(n, d) == [w |-> n \div d, f |-> (n % d) * (FracDen \div d)]

\* round2 of the exact amount x: the result counts cents
round2(x) == x.w + MathRound(x.f, FracDen)

(***************************************************************************)
(* IEEE 754 doubles, the numbers of the program                            *)
(*                                                                         *)
(* A natural number of any size is the sequence of its digits in base      *)
(* LimbBase, least significant first, without high zeros.  A positive      *)
(* double is [m, e]: the value m * 2^e with m of exactly MantissaBits      *)
(* bits; zero has the empty mantissa.  Every operation rounds to nearest,  *)
(* ties to even.                                                           *)
(***************************************************************************)
MantissaBits == 53
LimbBits == 15
LimbBase == 32768

RECURSIVE LimbsOf(_)
LimbsOf(n) ==
    IF n = 0 THEN <<>> ELSE <<n % LimbBase>> \o LimbsOf(n \div LimbBase)

Rest(a) == IF a = <<>> THEN <<>> ELSE Tail(a)
Low(a) == IF a = <<>> THEN 0 ELSE Head(a)

RECURSIVE Trim(_)
Trim(a) ==
    IF a = <<>> THEN <<>>
    ELSE IF a[Len(a)] = 0 THEN Trim(SubSeq(a, 1, Len(a) - 1))
    ELSE a

RECURSIVE AddCarry(_, _, _)
AddCarry(a, b, c) ==
    IF a = <<>> /\ b = <<>> THEN (IF c = 0 THEN <<>> ELSE <<c>>)
    ELSE LET sum == Low(a) + Low(b) + c
         IN <<sum % LimbBase>> \o AddCarry(Rest(a), Rest(b), sum \div LimbBase)

BigAdd(a, b) == AddCarry(a, b, 0)

RECURSIVE SubBorrow(_, _, _)
SubBorrow(a, b, c) ==
    IF a = <<>> THEN <<>>
    ELSE LET d == Low(a) - Low(b) - c
         IN <<d % LimbBase>> \o SubBorrow(Rest(a), Rest(b), IF d < 0 THEN 1 ELSE 0)

\* a - b for a >= b
BigSub(a, b) == Trim(SubBorrow(a, b, 0))

RECURSIVE GeqFromTop(_, _, _)
GeqFromTop(a, b, i) ==
    IF i = 0 THEN TRUE
    ELSE IF a[i] # b[i] THEN a[i] > b[i]
    ELSE GeqFromTop(a, b, i - 1)

\* a >= b
BigGeq(a, b) ==
    IF Len(a) # Len(b) THEN Len(a) > Len(b) ELSE GeqFromTop(a, b, Len(a))

\* a * x for a digit x
RECURSIVE MulCarry(_, _, _)
MulCarry(a, x, c) ==
    IF a = <<>> THEN (IF c = 0 THEN <<>> ELSE <<c>>)
    ELSE LET p == Head(a) * x + c
         IN <<p % LimbBase>> \o MulCarry(Tail(a), x, p \div LimbBase)

MulSmall(a, x) == IF x = 0 THEN <<>> ELSE MulCarry(a, x, 0)

\* a * LimbBase^n
ShiftLimbs(a, n) == IF a = <<>> THEN <<>> ELSE [i \in 1..n |-> 0] \o a

\* a * 2^n
Shl(a, n) == ShiftLimbs(MulSmall(a, 2 ^ (n % LimbBits)), n \div LimbBits)

\* 2^n
Pow2(n) == Shl(<<1>>, n)

\* a \div 2^n
Shr(a, n) ==
    LET limbs == n \div LimbBits
        kept == IF limbs >= Len(a) THEN <<>> ELSE SubSeq(a, limbs + 1, Len(a))
    IN IF n % LimbBits = 0 THEN kept
       ELSE Rest(MulSmall(kept, 2 ^ (LimbBits - (n % LimbBits))))

RECURSIVE BigMul(_, _)
BigMul(a, b) ==
    IF b = <<>> THEN <<>>
    ELSE LET high == BigMul(a, Tail(b))
         IN IF high = <<>> THEN MulSmall(a, Head(b))
            ELSE BigAdd(MulSmall(a, Head(b)), ShiftLimbs(high, 1))

\* digit i of a, 0 beyond its length
Digit(a, i) == IF i >= 1 /\ i <= Len(a) THEN a[i] ELSE 0

\* the quotient digit of r by d for r < d * LimbBase, d with a top digit of
\* at least LimbBase / 2 (or a single digit): the estimate from the two top
\* digits of r and the top digit of d is at most 2 above it
QuotientDigit(r, d) ==
    LET top == Len(d)
        estimate == Min(LimbBase - 1,
                        (Digit(r, top + 1) * LimbBase + Digit(r, top)) \div d[top])
    IN CHOOSE x \in Max(0, estimate - 2)..estimate :
            /\ BigGeq(r, MulSmall(d, x))
            /\ ~BigGeq(r, MulSmall(d, x + 1))

\* one step of the long division by d: the digit joins the remainder of the
\* digits above it
DivStep(above, digit, d) ==
    IF above.r = <<>> /\ digit = 0
    THEN [q |-> Trim(<<0>> \o above.q), r |-> <<>>]
    ELSE LET r2 == <<digit>> \o above.r
             x == QuotientDigit(r2, d)
         IN [q |-> Trim(<<x>> \o above.q), r |-> BigSub(r2, MulSmall(d, x))]

\* long division by d of the number made of the digits i and above of n:
\* its quotient q and remainder r; fewer digits than d has are a remainder
RECURSIVE DivFrom(_, _, _)
DivFrom(n, i, d) ==
    IF i > Len(n) - (Len(d) - 1)
    THEN [q |-> <<>>, r |-> IF i > Len(n) THEN <<>> ELSE SubSeq(n, i, Len(n))]
    ELSE DivStep(DivFrom(n, i + 1, d), n[i], d)

\* quotient and remainder of n by d; both are scaled first so that the top
\* digit of d is at least LimbBase / 2, which leaves the quotient as it is
\* and scales the remainder
BigDivMod(n, d) ==
    LET scale == LimbBits - 1
                 - (CHOOSE k \in 0..(LimbBits - 1) :
                        2 ^ k <= d[Len(d)] /\ d[Len(d)] < 2 ^ (k + 1))
        scaled == DivFrom(Shl(n, scale), 1, Shl(d, scale))
    IN [q |-> scaled.q, r |-> Shr(scaled.r, scale)]

\* the number of bits of a
BitLength(a) ==
    IF a = <<>> THEN 0
    ELSE (Len(a) - 1) * LimbBits
         + (CHOOSE k \in 1..LimbBits :
                2 ^ (k - 1) <= a[Len(a)] /\ a[Len(a)] < 2 ^ k)

Zero == [m |-> <<>>, e |-> 0]

\* the double nearest to n * 2^e, or to a value just above it when sticky
RoundToDouble(n, e, sticky) ==
    LET drop == BitLength(n) - MantissaBits
    IN IF n = <<>> THEN Zero
       ELSE IF drop <= 0 THEN [m |-> Shl(n, -drop), e |-> e + drop]
       ELSE LET q == Shr(n, drop)
                r == BigSub(n, Shl(q, drop))
                half == Pow2(drop - 1)
                up == IF r = half THEN sticky \/ q[1] % 2 = 1
                      ELSE BigGeq(r, half)
                m1 == IF up THEN BigAdd(q, <<1>>) ELSE q
            IN IF BitLength(m1) > MantissaBits
               THEN [m |-> Shr(m1, 1), e |-> e + drop + 1]
               ELSE [m |-> m1, e |-> e + drop]

\* the shift of n that gives the quotient by d two bits or three more than
\* a mantissa has
QuotientShift(n, d) == Max(0, MantissaBits + 2 + BitLength(d) - BitLength(n))

\* the double of the integer n
fromInt(n) == RoundToDouble(LimbsOf(n), 0, FALSE)

\* the double n / d of two integers, as Math.round(x * 100) / 100 yields it
fromRatio(n, d) ==
    LET shift == QuotientShift(LimbsOf(n), LimbsOf(d))
        qr == BigDivMod(Shl(LimbsOf(n), shift), LimbsOf(d))
    IN IF n = 0 THEN Zero ELSE RoundToDouble(qr.q, -shift, qr.r # <<>>)

\* a - b for a >= b >= 0
fpSub(a, b) ==
    LET e == Min(a.e, b.e)
    IN IF b.m = <<>> THEN a
       ELSE IF a = b THEN Zero
       ELSE RoundToDouble(BigSub(Shl(a.m, a.e - e), Shl(b.m, b.e - e)), e, FALSE)

\* a / b for b > 0
fpDiv(a, b) ==
    LET shift == QuotientShift(a.m, b.m)
        qr == BigDivMod(Shl(a.m, shift), b.m)
    IN IF a.m = <<>> \/ b.m = <<>> THEN Zero
       ELSE RoundToDouble(qr.q, a.e - b.e - shift, qr.r # <<>>)

fpMul(a, b) ==
    IF a.m = <<>> \/ b.m = <<>> THEN Zero
    ELSE RoundToDouble(BigMul(a.m, b.m), a.e + b.e, FALSE)

\* a <= b
fpLeq(a, b) ==
    LET e == Min(a.e, b.e)
    IN IF a.m = <<>> THEN TRUE
       ELSE IF b.m = <<>> THEN FALSE
       ELSE BigGeq(Shl(b.m, b.e - e), Shl(a.m, a.e - e))

(***************************************************************************)
(* Text constants used as inputs                                           *)
(***************************************************************************)
sUS == <<"U","S">>
sUs == <<"u","s">>
sBR == <<"B","R">>
sBr == <<"b","r">>
sIN == <<"I","N">>
sZZ == <<"Z","Z">>
sUSD == <<"U","S","D">>
sDate == <<"2","0","2","5","-","0","1","-","0","1">>
sSoftwareEngineer ==
    <<"S","o","f","t","w","a","r","e"," ","E","n","g","i","n","e","e","r">>
sSoftwareEngineerLc ==
    <<"s","o","f","t","w","a","r","e"," ","e","n","g","i","n","e","e","r">>
sProductManager ==
    <<"P","r","o","d","u","c","t"," ","M","a","n","a","g","e","r">>
sVPofEngineering ==
    <<"V","P"," ","o","f"," ","E","n","g","i","n","e","e","r","i","n","g">>
sApprove == <<"a","p","p","r","o","v","e">>
sReject == <<"r","e","j","e","c","t">>
sAPPROVE == <<"A","P","P","R","O","V","E">>
sRejectCap == <<"R","e","j","e","c","t">>
sMaybe == <<"m","a","y","b","e">>
sEmpty == <<>>

(***************************************************************************)
(* lib/store: types and the seed store                                     *)
(***************************************************************************)
ProviderName == {"deel", "remote", "oyster"}

\* the endpoints of GET /quotes/compare, in iteration order
endpoints == <<"deel", "remote", "oyster">>

\* A CountrySeed holds country, employer_tax_rate, benefits_percent, fixed_fees
\* (tenths of a cent), probation_months and roles (title, min_salary, max_salary); the
\* currency and note fields are never read by the engine and are left out.
Seed(c, tax, ben, fees, prob, roles) ==
    [country |-> c, employer_tax_rate |-> tax, benefits_percent |-> ben,
     fixed_fees |-> fees, probation_months |-> prob, roles |-> roles]

Band(t, lo, hi) == [title |-> t, min_salary |-> lo, max_salary |-> hi]

fallbackCountryData ==
    Seed(sUS, 11200, 8500, 360000, 3,
         <<Band(sSoftwareEngineer, 70000, 150000),
           Band(sProductManager, 90000, 170000)>>)

fallbackData == [c \in {sUS} |-> fallbackCountryData]

\* the table made of the list of seeds: m[s.country.toUpperCase()] = s, in
\* order, so a later entry of the same code replaces an earlier one
RECURSIVE IndexSeeds(_, _)
IndexSeeds(list, m) ==
    IF list = <<>> THEN m
    ELSE LET s == Head(list)
             code == toUpperCase(s.country)
         IN IndexSeeds(Tail(list),
                [c \in (DOMAIN m) \cup {code} |-> IF c = code THEN s ELSE m[c]])

EmptyTable == [c \in {} |-> fallbackCountryData]

\* one set of deltas of a ProviderAdjustSpec; a missing field takes its
\* default (0 for a delta, 1 for salary_multiplier, counted in hundredths)
Field(r, name, default) == IF name \in DOMAIN r THEN r[name] ELSE default

\* a faulty variant of deriveSeed: the deltas are added without the floor
deriveSeedNoFloor(base, adjGlobal, per) ==
    [base EXCEPT
        !.employer_tax_rate = @ + Field(adjGlobal, "employer_tax_rate_delta", 0)
                                + Field(per, "employer_tax_rate_delta", 0),
        !.benefits_percent = @ + Field(adjGlobal, "benefits_percent_delta", 0)
                               + Field(per, "benefits_percent_delta", 0),
        !.fixed_fees = @ + Field(adjGlobal, "fixed_fees_delta", 0)
                         + Field(per, "fixed_fees_delta", 0)]

deriveSeed(base, adjGlobal, per) ==
    LET employer_tax_rate ==
            Max(0, base.employer_tax_rate
                   + Field(adjGlobal, "employer_tax_rate_delta", 0)
                   + Field(per, "employer_tax_rate_delta", 0))
        benefits_percent ==
            Max(0, base.benefits_percent
                   + Field(adjGlobal, "benefits_percent_delta", 0)
                   + Field(per, "benefits_percent_delta", 0))
        fixed_fees ==
            Max(0, base.fixed_fees
                   + Field(adjGlobal, "fixed_fees_delta", 0)
                   + Field(per, "fixed_fees_delta", 0))
        mult == Field(adjGlobal, "salary_multiplier", 100)
                * Field(per, "salary_multiplier", 100)
        roles == [i \in DOMAIN base.roles |->
                    [base.roles[i] EXCEPT
                        !.min_salary = MathRound(@ * mult, 10000),
                        !.max_salary = MathRound(@ * mult, 10000)]]
    IN [base EXCEPT !.employer_tax_rate = employer_tax_rate,
                    !.benefits_percent = benefits_percent,
                    !.fixed_fees = fixed_fees,
                    !.roles = roles]

\* a faulty variant of buildDerived: a derivation spec yields only the
\* countries it names in perCountry
buildDerivedNamedOnly(file, deelMap) ==
    IF file.kind = "corrupt" THEN [ok |-> FALSE]
    ELSE IF file.kind = "full"
    THEN [ok |-> TRUE, table |-> IndexSeeds(file.seeds, EmptyTable)]
    ELSE LET adjGlobal == Field(file, "adjustments", [x \in {} |-> 0])
             perCountry == Field(adjGlobal, "perCountry", [x \in {} |-> 0])
         IN [ok |-> TRUE,
             table |-> [code \in (DOMAIN deelMap) \cap (DOMAIN perCountry) |->
                          deriveSeed(deelMap[code], adjGlobal, perCountry[code])]]

\* buildDerived: file is [kind |-> "corrupt"], [kind |-> "full", seeds |-> list]
\* or [kind |-> "spec", adjustments |-> deltas with an optional perCountry].
\* The result is [ok |-> FALSE] when reading or parsing throws.
buildDerived(file, deelMap) ==
    IF file.kind = "corrupt" THEN [ok |-> FALSE]
    ELSE IF file.kind = "full"
    THEN [ok |-> TRUE, table |-> IndexSeeds(file.seeds, EmptyTable)]
    ELSE LET adjGlobal == Field(file, "adjustments", [x \in {} |-> 0])
             perCountry == Field(adjGlobal, "perCountry", [x \in {} |-> 0])
         IN [ok |-> TRUE,
             table |-> [code \in DOMAIN deelMap |->
                          deriveSeed(deelMap[code], adjGlobal,
                                     Field(perCountry, code, [x \in {} |-> 0]))]]

\* loadSeedFromDisk: the provider tables after a load from the directory d.
\* d is [found |-> FALSE] when no data directory exists, else it holds for
\* each provider file whether it exists and what it contains.
loadSeedFromDisk(d) ==
    LET fallback == [p \in ProviderName |-> fallbackData]
    IN IF ~d.found THEN fallback
       ELSE IF \E p \in ProviderName : ~d.exists[p] THEN fallback
       ELSE IF d.deel.kind = "corrupt" THEN fallback
       ELSE LET deelMap == IndexSeeds(d.deel.seeds, EmptyTable)
                remote == buildDerived(d.remote, deelMap)
                oyster == buildDerived(d.oyster, deelMap)
            IN IF ~remote.ok \/ ~oyster.ok THEN fallback
               ELSE [p \in ProviderName |->
                        IF p = "deel" THEN deelMap
                        ELSE IF p = "remote" THEN remote.table
                        ELSE oyster.table]

isSeedDataLoaded(tables) == \A p \in ProviderName : DOMAIN tables[p] # {}

(***************************************************************************)
(* lib/config                                                              *)
(***************************************************************************)
\* terminationMultiplier 0.5 as TermMultNum / TermMultDen
TermMultNum == 1
TermMultDen == 2
maxTceThreshold == 200000
cashFlowRatioTenths == 15
riskScoreThreshold == 70
minimumMarginPercent == 15
targetMarginPercent == 25
riskThresholdPercent == 10

\* config.serviceTypes; riskMultiplier counts tenths
serviceTypes ==
    ("full-time-employee" :>
        [minimumMargin |-> 15, acidTestRequired |-> TRUE, riskMultiplier |-> 10])
    @@ ("contractor" :>
        [minimumMargin |-> 10, acidTestRequired |-> FALSE, riskMultiplier |-> 8])
    @@ ("executive" :>
        [minimumMargin |-> 20, acidTestRequired |-> TRUE, riskMultiplier |-> 12])

\* process.env.MAX_TCE of the legacy manual review check; 0 stands for unset
MAX_TCE == 0

(***************************************************************************)
(* lib/calc                                                                *)
(***************************************************************************)
\* a faulty total: the fixed fees are left out of the sum
exactTceNoFees(salary, employer_tax, benefits_cost, fixed_fees, termination) ==
    [w |-> salary.w + employer_tax.w + benefits_cost.w + termination.w,
     f |-> salary.f + employer_tax.f + benefits_cost.f + termination.f]

\* the unrounded total: the five exact amounts added
exactTce(salary, employer_tax, benefits_cost, fixed_fees, termination) ==
    [w |-> salary.w + employer_tax.w + benefits_cost.w + fixed_fees.w + termination.w,
     f |-> salary.f + employer_tax.f + benefits_cost.f + fixed_fees.f + termination.f]

\* computeCosts(salary, seed): salary in currency units, the result in cents
computeCosts(salary, seed) ==
    LET employer_tax == MulFrac(salary, seed.employer_tax_rate, RateDen \div 100)
        benefits_cost == MulFrac(salary, seed.benefits_percent, RateDen \div 100)
        termination_amortization ==
            Frac(salary * 100 * TermMultNum * seed.probation_months, TermMultDen * 12)
        tce == exactTce(Frac(salary * 100, 1), employer_tax, benefits_cost,
                        Frac(seed.fixed_fees, 10), termination_amortization)
    IN [salary |-> round2(Frac(salary * 100, 1)),
        employer_tax |-> round2(employer_tax),
        benefits_cost |-> round2(benefits_cost),
        fixed_fees |-> round2(Frac(seed.fixed_fees, 10)),
        termination_amortization |-> round2(termination_amortization),
        tce |-> round2(tce)]

(***************************************************************************)
(* lib/providerLogic                                                       *)
(***************************************************************************)
providerAdjustments ==
    [p \in ProviderName |-> [taxDelta |-> 0, fixedFeeDelta |-> 0]]

\* getSeedForCountry: [found |-> FALSE] stands for undefined
getSeedForCountry(tables, country, provider) ==
    IF toUpperCase(country) \in DOMAIN tables[provider]
    THEN [found |-> TRUE, seed |-> tables[provider][toUpperCase(country)]]
    ELSE [found |-> FALSE]

getAdjustedSeed(tables, provider, country) ==
    LET base == getSeedForCountry(tables, country, provider)
        adj == providerAdjustments[provider]
    IN IF ~base.found THEN base
       ELSE [found |-> TRUE,
             seed |-> [base.seed EXCEPT
                 !.employer_tax_rate = Max(0, @ + adj.taxDelta),
                 !.fixed_fees = Max(0, @ + adj.fixedFeeDelta)]]

(***************************************************************************)
(* validation/schemas and routes/provider                                  *)
(***************************************************************************)
\* contractInputSchema.safeParse succeeds
contractInputSchema(input) ==
    /\ Len(input.country) >= 2
    /\ input.salary > 0
    /\ Len(input.currency) = 3
    /\ Len(input.role) >= 2
    /\ Len(input.start_date) >= 4

\* base.roles.find(r => r.title.toLowerCase() === role.toLowerCase())
findBand(roles, role) ==
    LET hits == {i \in DOMAIN roles :
                    toLowerCase(roles[i].title) = toLowerCase(role)}
    IN IF hits = {} THEN [found |-> FALSE]
       ELSE [found |-> TRUE,
             band |-> roles[CHOOSE i \in hits : \A j \in hits : i <= j]]

\* Math.round((min + max) / 2 + (Math.random() - 0.5) * (max - min) * 0.2)
\* where Math.random() - 0.5 is k / 10, k in -5 .. 4
randomizedSalary(band, k) ==
    MathRound(50 * (band.min_salary + band.max_salary)
              + 2 * k * (band.max_salary - band.min_salary), 100)

\* jitter(n, 0.03) = n * (1 + (Math.random() - 0.5) * 2 * 0.03) where
\* (Math.random() - 0.5) * 2 is u / 3, u in -3 .. 2; the table values of
\* the model are multiples of 100, which keeps the product on the grid
jitter(n, u) == (n * (100 + u)) \div 100

\* a faulty shape: oyster reports the fees as benefits and the benefits as fees
shapeOysterSwapped(provider, costs) ==
    IF provider = "deel" THEN [costs |-> costs]
    ELSE IF provider = "remote"
    THEN [breakdown |->
            [salary |-> costs.salary,
             employer_tax |-> costs.employer_tax,
             benefits_cost |-> costs.benefits_cost,
             fixed_fees |-> costs.fixed_fees,
             termination_amortization |-> costs.termination_amortization,
             totalEmploymentCost |-> costs.tce]]
    ELSE [data |->
            [salary |-> costs.salary,
             employer_tax |-> costs.employer_tax,
             benefits |-> costs.fixed_fees,
             fees_fixed |-> costs.benefits_cost,
             termination |-> costs.termination_amortization,
             total_cost_employment |-> costs.tce]]

\* the shape of the synchronous response of each provider
shape(provider, costs) ==
    IF provider = "deel" THEN [costs |-> costs]
    ELSE IF provider = "remote"
    THEN [breakdown |->
            [salary |-> costs.salary,
             employer_tax |-> costs.employer_tax,
             benefits_cost |-> costs.benefits_cost,
             fixed_fees |-> costs.fixed_fees,
             termination_amortization |-> costs.termination_amortization,
             totalEmploymentCost |-> costs.tce]]
    ELSE [data |->
            [salary |-> costs.salary,
             employer_tax |-> costs.employer_tax,
             benefits |-> costs.benefits_cost,
             fees_fixed |-> costs.fixed_fees,
             termination |-> costs.termination_amortization,
             total_cost_employment |-> costs.tce]]

\* the salary the synchronous quote is computed for
quoteSalary(provider, input, base, k) ==
    LET band == findBand(base.roles, input.role)
        randomized == IF band.found THEN randomizedSalary(band.band, k)
                      ELSE input.salary
    IN IF provider = "deel" THEN input.salary ELSE randomized

\* POST /eor without delay: the response, given the random draws
\* rnd = [k, tax, ben, fees] of this request
postEorSync(tables, provider, input, rnd) ==
    IF ~contractInputSchema(input) THEN [status |-> 400]
    ELSE LET base == getAdjustedSeed(tables, provider, input.country)
         IN IF ~base.found THEN [status |-> 404]
            ELSE LET adjusted == base.seed
                     salary == quoteSalary(provider, input, adjusted, rnd.k)
                     adjustedJittered ==
                        [adjusted EXCEPT
                            !.employer_tax_rate = Max(0, jitter(@, rnd.tax)),
                            !.benefits_percent = Max(0, jitter(@, rnd.ben)),
                            !.fixed_fees = Max(0, jitter(@, rnd.fees))]
                     costs == computeCosts(salary, adjustedJittered)
                 IN [status |-> 200, body |-> shape(provider, costs)]

(***************************************************************************)
(* lib/validation                                                          *)
(***************************************************************************)
sExecutive == <<"e","x","e","c","u","t","i","v","e">>
sCeo == <<"c","e","o">>
sCto == <<"c","t","o">>
sVp == <<"v","p">>
sContractor == <<"c","o","n","t","r","a","c","t","o","r">>
sFreelance == <<"f","r","e","e","l","a","n","c","e">>
sConsultant == <<"c","o","n","s","u","l","t","a","n","t">>

\* a faulty order: the contractor keywords are checked first
getServiceTypeContractorFirst(role) ==
    LET roleStr == toLowerCase(role)
    IN IF includes(roleStr, sContractor) \/ includes(roleStr, sFreelance)
          \/ includes(roleStr, sConsultant)
       THEN "contractor"
       ELSE IF includes(roleStr, sExecutive) \/ includes(roleStr, sCeo)
               \/ includes(roleStr, sCto) \/ includes(roleStr, sVp)
       THEN "executive"
       ELSE "full-time-employee"

getServiceTypeFromRole(role) ==
    LET roleStr == toLowerCase(role)
    IN IF includes(roleStr, sExecutive) \/ includes(roleStr, sCeo)
          \/ includes(roleStr, sCto) \/ includes(roleStr, sVp)
       THEN "executive"
       ELSE IF includes(roleStr, sContractor) \/ includes(roleStr, sFreelance)
               \/ includes(roleStr, sConsultant)
       THEN "contractor"
       ELSE "full-time-employee"

\* calculateMarginPercent: ((tce - internalCosts) / tce) * 100 in doubles
calculateMarginPercent(tce, internalCosts) ==
    IF tce = Zero THEN Zero
    ELSE fpMul(fpDiv(fpSub(tce, internalCosts), tce), fromInt(100))

highRiskCountries == {sBR, sIN, <<"M","X">>}
lowRiskCountries == {sUS, <<"G","B">>, <<"D","E">>, <<"N","L">>, <<"S","E">>}

\* a faulty score: the product is rounded but not clamped
calculateRiskScoreUnclamped(input) ==
    LET tceRisk == IF input.tce > maxTceThreshold * 100 THEN 20 ELSE 0
        ratioRisk == IF input.salary * 1000 < 6 * input.tce THEN 15 ELSE 0
        countryRisk == IF input.country \in {sBR, sIN} THEN 10 ELSE 0
    IN MathRound((50 + tceRisk + ratioRisk + countryRisk)
                 * serviceTypes[input.serviceType].riskMultiplier, 10)

\* calculateRiskScore; tce in cents, salary in currency units
calculateRiskScore(input) ==
    LET tceRisk == IF input.tce > maxTceThreshold * 100 THEN 20
                   ELSE IF input.tce * 10 > maxTceThreshold * 100 * 7 THEN 10
                   ELSE 0
        ratioRisk == IF input.salary * 1000 < 6 * input.tce THEN 15
                     ELSE IF input.salary * 1000 > 9 * input.tce THEN -10
                     ELSE 0
        countryRisk == IF input.country \in highRiskCountries THEN 10
                       ELSE IF input.country \in lowRiskCountries THEN -5
                       ELSE 0
        riskScore == (50 + tceRisk + ratioRisk + countryRisk)
                     * serviceTypes[input.serviceType].riskMultiplier
    IN Min(100, Max(0, MathRound(riskScore, 10)))

\* performAcidTest: (salary + salary * 0.2) / (tce / 12) < cashFlowRatio
performAcidTest(input) ==
    IF ~serviceTypes[input.serviceType].acidTestRequired THEN TRUE
    ELSE IF input.tce > maxTceThreshold * 100 THEN FALSE
    ELSE IF input.salary * 10 * 12 * 12 < (cashFlowRatioTenths * input.tce + 9) \div 10
    THEN FALSE
    ELSE TRUE

\* a faulty check: every margin meets the minimum
validateMarginThresholdsLenient(marginPercent, serviceType) ==
    [meetsMinimum |-> TRUE,
     meetsTarget |-> fpLeq(fromInt(targetMarginPercent), marginPercent),
     isRisky |-> fpLeq(marginPercent, fromInt(riskThresholdPercent))]

validateMarginThresholds(marginPercent, serviceType) ==
    LET minimumMargin == serviceTypes[serviceType].minimumMargin
    IN [meetsMinimum |-> fpLeq(fromInt(minimumMargin), marginPercent),
        meetsTarget |-> fpLeq(fromInt(targetMarginPercent), marginPercent),
        isRisky |-> fpLeq(marginPercent, fromInt(riskThresholdPercent))]

\* validateQuote; warnings and errors hold the kind of each message, and
\* marginPercent is a double.  input.tce is a number of cents and stands for
\* the double nearest to that amount, which is what round2 has produced
validateQuote(input) ==
    LET tce == fromRatio(input.tce, 100)
        internalCosts == fpMul(tce, fromRatio(8, 10))
        riskScore == calculateRiskScore(input)
        acidTestPassed == performAcidTest(input)
        \* the rest of the function, once marginPercent is computed
        resultFor(marginPercent) ==
            LET marginValidation ==
                    validateMarginThresholds(marginPercent, input.serviceType)
                errors ==
                    (IF ~marginValidation.meetsMinimum
                     THEN <<"margin below minimum">> ELSE <<>>)
                    \o (IF ~acidTestPassed THEN <<"failed acid test">> ELSE <<>>)
                warnings ==
                    (IF ~marginValidation.meetsTarget
                     THEN <<"margin below target">> ELSE <<>>)
                    \o (IF marginValidation.isRisky
                        THEN <<"margin in risk zone">> ELSE <<>>)
                    \o (IF riskScore > riskScoreThreshold
                        THEN <<"high risk score">> ELSE <<>>)
                    \o (IF input.tce > maxTceThreshold * 100
                        THEN <<"tce exceeds threshold">> ELSE <<>>)
                requiresManualReview ==
                    \/ Len(errors) > 0
                    \/ riskScore > riskScoreThreshold
                    \/ ~marginValidation.meetsMinimum
                    \/ input.tce > maxTceThreshold * 100
            IN [isValid |-> Len(errors) = 0,
                warnings |-> warnings,
                errors |-> errors,
                riskScore |-> riskScore,
                marginPercent |-> marginPercent,
                acidTestPassed |-> acidTestPassed,
                requiresManualReview |-> requiresManualReview]
    IN resultFor(calculateMarginPercent(tce, internalCosts))

(***************************************************************************)
(* routes/quotes: GET /quotes/compare                                      *)
(***************************************************************************)
\* compareQuerySchema.safeParse succeeds
compareQuerySchema(q) ==
    /\ Len(q.country) >= 2
    /\ q.salary > 0
    /\ Len(q.currency) = 3
    /\ Len(q.role) >= 2

\* the unified costs read from the body of an OK response: the deel shape,
\* the remote shape, the oyster shape, or no costs at all
normaliseBody(p, data) ==
    IF "costs" \in DOMAIN data
    THEN [provider |-> p, costs |-> data.costs]
    ELSE IF "breakdown" \in DOMAIN data
    THEN [provider |-> p,
          costs |-> [salary |-> data.breakdown.salary,
                     employer_tax |-> data.breakdown.employer_tax,
                     benefits_cost |-> data.breakdown.benefits_cost,
                     fixed_fees |-> data.breakdown.fixed_fees,
                     termination_amortization |->
                         data.breakdown.termination_amortization,
                     tce |-> data.breakdown.totalEmploymentCost]]
    ELSE IF "data" \in DOMAIN data /\ data.data.total_cost_employment # 0
    THEN [provider |-> p,
          costs |-> [salary |-> data.data.salary,
                     employer_tax |-> data.data.employer_tax,
                     benefits_cost |-> data.data.benefits,
                     fixed_fees |-> data.data.fees_fixed,
                     termination_amortization |-> data.data.termination,
                     tce |-> data.data.total_cost_employment]]
    ELSE [provider |-> p]

\* a faulty callback: a response that is not OK is given costs of zero
normaliseDefaultCosts(p, r) ==
    IF r.status # 200
    THEN [provider |-> p,
          costs |-> [salary |-> 0, employer_tax |-> 0, benefits_cost |-> 0,
                     fixed_fees |-> 0, termination_amortization |-> 0,
                     tce |-> 0]]
    ELSE normaliseBody(p, r.body)

\* what the endpoint callback returns for the response r of provider p
normalise(p, r) ==
    IF r.status # 200 THEN [provider |-> p, error |-> r.status]
    ELSE normaliseBody(p, r.body)

\* responses.some(r => 'error' in r || !r.costs)
someFailed(responses) ==
    \E i \in DOMAIN responses :
        "error" \in DOMAIN responses[i] \/ "costs" \notin DOMAIN responses[i]

\* list.reduce((acc, cur) => (cur.costs.tce < acc.costs.tce ? cur : acc))
RECURSIVE reduceLowest(_, _)
reduceLowest(acc, rest) ==
    IF rest = <<>> THEN acc
    ELSE reduceLowest(IF Head(rest).costs.tce < acc.costs.tce THEN Head(rest) ELSE acc,
                      Tail(rest))

\* a faulty reduce: >= lets the last of several equal entries win
RECURSIVE reduceHighestLastWins(_, _)
reduceHighestLastWins(acc, rest) ==
    IF rest = <<>> THEN acc
    ELSE reduceHighestLastWins(
            IF Head(rest).costs.tce >= acc.costs.tce THEN Head(rest) ELSE acc,
            Tail(rest))

\* list.reduce((acc, cur) => (cur.costs.tce > acc.costs.tce ? cur : acc))
RECURSIVE reduceHighest(_, _)
reduceHighest(acc, rest) ==
    IF rest = <<>> THEN acc
    ELSE reduceHighest(IF Head(rest).costs.tce > acc.costs.tce THEN Head(rest) ELSE acc,
                       Tail(rest))

maxTceOf(costsOnly) ==
    CHOOSE t \in {costsOnly[i].costs.tce : i \in DOMAIN costsOnly} :
        \A i \in DOMAIN costsOnly : costsOnly[i].costs.tce <= t

minTceOf(costsOnly) ==
    CHOOSE t \in {costsOnly[i].costs.tce : i \in DOMAIN costsOnly} :
        \A i \in DOMAIN costsOnly : costsOnly[i].costs.tce >= t

\* spreadPct = ((maxTce - minTce) / minTce) * 100 in doubles, for TCEs that
\* round2 has produced: the doubles nearest to a number of cents over 100
spreadPct(maxTce, minTce) ==
    LET mx == fromRatio(maxTce, 100)
        mn == fromRatio(minTce, 100)
    IN fpMul(fpDiv(fpSub(mx, mn), mn), fromInt(100))

\* spreadPct <= 4; a zero minTce makes spreadPct NaN or Infinity, and the
\* comparison false.  When the exact spread is not 4 percent it is at least
\* 1 / minTce away from 4, far more than the rounding errors of the three
\* operations (below 1 / 10^13), and the doubles compare as the exact numbers
\* do; the doubles are computed when the exact spread is 4 percent.
spreadWithin(maxTce, minTce) ==
    IF minTce = 0 THEN FALSE
    ELSE IF (maxTce - minTce) * 100 # 4 * minTce
    THEN (maxTce - minTce) * 100 < 4 * minTce
    ELSE fpLeq(spreadPct(maxTce, minTce), fromInt(4))

\* the chosen entry of costsOnly
chooseProvider(costsOnly) ==
    LET maxTce == maxTceOf(costsOnly)
        minTce == minTceOf(costsOnly)
    IN IF spreadWithin(maxTce, minTce)
       THEN reduceHighest(Head(costsOnly), Tail(costsOnly))
       ELSE reduceLowest(Head(costsOnly), Tail(costsOnly))

legacyManualReview(maxTce) ==
    IF MAX_TCE > 0 THEN maxTce > MAX_TCE * 100 ELSE FALSE

\* a faulty creation: every record starts pending
initialStatusAlwaysPending(requiresManualReview) == "pending"

\* initial status of a record
initialStatus(requiresManualReview) ==
    IF requiresManualReview THEN "pending" ELSE "approved"

\* the QuoteRecord stored for the query q and the three results costsOnly
quoteRecord(id, q, costsOnly) ==
    LET chosen == chooseProvider(costsOnly)
        serviceType == getServiceTypeFromRole(q.role)
        \* the record, once the chosen quote is validated
        record(chosen_provider, validationResult) ==
            LET requiresManualReview ==
                    legacyManualReview(maxTceOf(costsOnly))
                    \/ validationResult.requiresManualReview
            IN [id |-> id,
                \* Date.now() at the insert, counted in draws of an id
                createdAt |-> id,
                query |-> [country |-> q.country, salary |-> q.salary,
                           currency |-> q.currency, role |-> q.role,
                           service_type |-> serviceType],
                providers |-> costsOnly,
                chosen_provider |-> chosen_provider,
                requires_manual_review |-> requiresManualReview,
                status |-> initialStatus(requiresManualReview),
                validation |-> [is_valid |-> validationResult.isValid,
                                margin_percent |-> validationResult.marginPercent,
                                risk_score |-> validationResult.riskScore,
                                acid_test_passed |-> validationResult.acidTestPassed,
                                warnings |-> validationResult.warnings,
                                errors |-> validationResult.errors]]
    IN record(chosen.provider,
              validateQuote([tce |-> chosen.costs.tce, salary |-> q.salary,
                             country |-> q.country, serviceType |-> serviceType]))

(***************************************************************************)
(* routes/quotes and routes/mockAdmin: POST /:id/review                    *)
(***************************************************************************)
\* String((req.body && req.body.action) || '').toLowerCase(); a body without
\* an action is [present |-> FALSE]
reviewAction(a) == IF a.present THEN toLowerCase(a.value) ELSE sEmpty

\* a faulty mapping: reject sends the record back to pending
reviewStatusRejectReopens(action) ==
    IF action = sApprove THEN "approved"
    ELSE IF action = sReject THEN "pending"
    ELSE ""

\* the status the action asks for, "" when the action is not accepted
reviewStatus(action) ==
    IF action = sApprove THEN "approved"
    ELSE IF action = sReject THEN "rejected"
    ELSE ""

\* a faulty handler: the action is checked before the id
reviewCodeActionFirst(qs, id, a) ==
    IF reviewStatus(reviewAction(a)) = "" THEN 400
    ELSE IF id \notin DOMAIN qs THEN 404
    ELSE 200

\* status code of the review of id with the action a
reviewCode(qs, id, a) ==
    IF id \notin DOMAIN qs THEN 404
    ELSE IF reviewStatus(reviewAction(a)) = "" THEN 400
    ELSE 200

\* a faulty handler: only a pending record takes the review
reviewStorePendingOnly(qs, id, a) ==
    IF reviewCode(qs, id, a) = 200 /\ qs[id].status = "pending"
    THEN [qs EXCEPT ![id].status = reviewStatus(reviewAction(a))]
    ELSE qs

\* a faulty handler: the status is written before the action is validated
reviewStoreWriteFirst(qs, id, a) ==
    IF id \in DOMAIN qs
    THEN [qs EXCEPT ![id].status = reviewStatus(reviewAction(a))]
    ELSE qs

\* a faulty handler: an approval also clears the manual review flag
reviewStoreClearsFlag(qs, id, a) ==
    IF reviewCode(qs, id, a) = 200
    THEN [qs EXCEPT ![id].status = reviewStatus(reviewAction(a)),
                    ![id].requires_manual_review =
                        @ /\ reviewStatus(reviewAction(a)) # "approved"]
    ELSE qs

\* the quote store after the review of id with the action a
reviewStore(qs, id, a) ==
    IF reviewCode(qs, id, a) = 200
    THEN [qs EXCEPT ![id].status = reviewStatus(reviewAction(a))]
    ELSE qs

(***************************************************************************)
(* Inputs of the model                                                     *)
(***************************************************************************)
\* a data directory that loads: a deel table of three countries, a derivation
\* spec for remote and a full table of two countries for oyster
DiskGood ==
    [found |-> TRUE,
     exists |-> [p \in ProviderName |-> TRUE],
     deel |-> [kind |-> "full", seeds |->
        <<Seed(sUS, 11200, 8500, 360000, 3,
               <<Band(sSoftwareEngineer, 70000, 150000),
                 Band(sProductManager, 90000, 170000)>>),
          Seed(sBr, 20000, 10000, 450000, 1,
               <<Band(sSoftwareEngineer, 30000, 60000)>>),
          Seed(sIN, 15000, 5000, 200000, 2,
               <<Band(sSoftwareEngineer, 20000, 50000)>>)>>],
     remote |-> [kind |-> "spec", adjustments |->
        [employer_tax_rate_delta |-> 500,
         fixed_fees_delta |-> -40000,
         salary_multiplier |-> 105,
         perCountry |-> (sBR :> [benefits_percent_delta |-> -50000])]],
     oyster |-> [kind |-> "full", seeds |->
        <<Seed(sUs, 11000, 9000, 300000, 3,
               <<Band(sSoftwareEngineerLc, 80000, 140000)>>),
          Seed(sBR, 21000, 9000, 500000, 1, <<>>)>>]]

\* no data directory: the load falls back to the built-in table
DiskMissing == [found |-> FALSE]

\* the directory contents the environment may hold, by name
DiskChoices == {"good", "missing"}
DiskContent == [d \in DiskChoices |-> IF d = "good" THEN DiskGood ELSE DiskMissing]

\* the tables loadSeedFromDisk leaves in seedStore.providers for each content
Tables == [d \in DiskChoices |-> loadSeedFromDisk(DiskContent[d])]

Input(c, salary, role) ==
    [country |-> c, salary |-> salary, currency |-> sUSD, role |-> role,
     start_date |-> sDate]

\* bodies of the POST /eor requests of outside clients
EorInputs ==
    {Input(sUS, 80000, sSoftwareEngineer),
     Input(sZZ, 80000, sSoftwareEngineer),
     Input(sUS, 0, sSoftwareEngineer)}

Query(c, salary, role) ==
    [country |-> c, salary |-> salary, currency |-> sUSD, role |-> role]

\* queries of GET /quotes/compare
CompareQueries ==
    {Query(sUS, 100000, sSoftwareEngineer),
     Query(sBr, 180000, sVPofEngineering),
     Query(sIN, 50000, sSoftwareEngineer),
     Query(sUS, 0, sSoftwareEngineer)}

\* draws of Math.random() of one synchronous quote
RandomDraws ==
    {[k |-> k, tax |-> u, ben |-> u, fees |-> u] : k \in {-5, 4}, u \in {-3}}

\* bodies of the review requests
ReviewActions ==
    {[present |-> TRUE, value |-> sApprove],
     [present |-> TRUE, value |-> sReject],
     [present |-> TRUE, value |-> sAPPROVE],
     [present |-> TRUE, value |-> sMaybe],
     [present |-> TRUE, value |-> sEmpty],
     [present |-> FALSE]}

\* ids a client may ask for
Ids == 1..MaxIds

(***************************************************************************)
(* The server                                                              *)
(***************************************************************************)
NoProbe == [fn |-> "none"]
EmptyMap == [x \in {} |-> 0]

\* seedStore.providers: loadSeedFromDisk is synchronous and is the only writer
\* of the tables, so they are the tables of the content read by the last load
providers == [p \in ProviderName |-> Tables[seedLoad[p]][p]]

Init ==
    /\ disk \in DiskChoices
    /\ seedLoad = [p \in ProviderName |-> disk]
    /\ contracts = [p \in ProviderName |-> EmptyMap]
    /\ quotes = EmptyMap
    /\ timers = {}
    /\ inflight = EmptyMap
    /\ nextId = 1
    /\ probe = NoProbe

\* a uuid can still be drawn for every handler that will need one
IdAvailable == nextId + Cardinality(DOMAIN inflight) <= MaxIds

\* a faulty reload: it replaces the primary table and returns before the
\* secondary tables are replaced
ReloadPrimaryOnly ==
    /\ seedLoad' = [seedLoad EXCEPT !["deel"] = disk]
    /\ UNCHANGED <<disk, contracts, quotes, timers, inflight, nextId, probe>>

\* a faulty reload: it cancels the timers of the pending contracts
ReloadClearsTimers ==
    /\ seedLoad' = [p \in ProviderName |-> disk]
    /\ timers' = {}
    /\ UNCHANGED <<disk, contracts, quotes, inflight, nextId, probe>>

\* POST /mock/seed
Reload ==
    /\ seedLoad' = [p \in ProviderName |-> disk]
    /\ UNCHANGED <<disk, contracts, quotes, timers, inflight, nextId, probe>>

\* status code of POST /eor
postEorStatus(tables, provider, input, delay) ==
    IF ~contractInputSchema(input) THEN 400
    ELSE IF ~getAdjustedSeed(tables, provider, input.country).found THEN 404
    ELSE IF delay THEN 202
    ELSE 200

\* the contract stored by POST /eor?delay=true
storedContract(id, provider, input) ==
    [id |-> id, provider |-> provider, input |-> input, status |-> "pending"]

\* POST /eor of an outside client, with ?delay=true when delay holds; the
\* synchronous mode and the failures change nothing in the stores
PostEor(provider, input, delay) ==
    IF postEorStatus(providers, provider, input, delay) = 202
    THEN /\ IdAvailable
         /\ contracts' = [contracts EXCEPT ![provider] =
                 [i \in (DOMAIN @) \cup {nextId} |->
                     IF i = nextId THEN storedContract(nextId, provider, input)
                     ELSE @[i]]]
         /\ timers' = timers \cup
                 {[provider |-> provider, id |-> nextId, input |-> input,
                   adjusted |-> getAdjustedSeed(providers, provider, input.country).seed]}
         /\ nextId' = nextId + 1
         /\ UNCHANGED <<disk, seedLoad, quotes, inflight, probe>>
    ELSE UNCHANGED vars

\* a faulty callback: it marks the contract ready and forgets the costs
readyContractNoCosts(current, costs) ==
    [id |-> current.id, provider |-> current.provider, input |-> current.input,
     status |-> "ready"]

\* a faulty callback: it stores the costs and leaves the status as it is
readyContractCostsFirst(current, costs) ==
    [id |-> current.id, provider |-> current.provider, input |-> current.input,
     status |-> current.status, costs |-> costs]

\* the contract after the timer callback has run on it
readyContract(current, costs) ==
    [id |-> current.id, provider |-> current.provider, input |-> current.input,
     status |-> "ready", costs |-> costs]

\* a faulty callback: it looks the rate entry up when it runs
TimerFireLateLookup(t) ==
    LET base == getAdjustedSeed(providers, t.provider, t.input.country)
        costs == computeCosts(t.input.salary,
                              IF base.found THEN base.seed ELSE t.adjusted)
    IN /\ t \in timers
       /\ timers' = timers \ {t}
       /\ contracts' =
            IF t.id \in DOMAIN contracts[t.provider]
            THEN [contracts EXCEPT ![t.provider][t.id] = readyContract(@, costs)]
            ELSE contracts
       /\ UNCHANGED <<disk, seedLoad, quotes, inflight, nextId, probe>>

\* the callback given to setTimeout by POST /eor?delay=true
TimerFire(t) ==
    LET costs == computeCosts(t.input.salary, t.adjusted)
    IN /\ t \in timers
       /\ timers' = timers \ {t}
       /\ contracts' =
            IF t.id \in DOMAIN contracts[t.provider]
            THEN [contracts EXCEPT ![t.provider][t.id] = readyContract(@, costs)]
            ELSE contracts
       /\ UNCHANGED <<disk, seedLoad, quotes, inflight, nextId, probe>>

\* a faulty lookup: the id is looked up in the stores of all providers
contractDetailsAnyStore(cs, provider, id) ==
    IF \A q \in ProviderName : id \notin DOMAIN cs[q] THEN [status |-> 404]
    ELSE LET found == cs[CHOOSE q \in ProviderName : id \in DOMAIN cs[q]][id]
         IN [status |-> 200, contract_id |-> found.id,
             contract_status |-> found.status]

\* response of GET /eor/contracts/:id/details
contractDetails(cs, provider, id) ==
    IF id \notin DOMAIN cs[provider] THEN [status |-> 404]
    ELSE LET found == cs[provider][id]
         IN IF "costs" \in DOMAIN found
            THEN [status |-> 200, contract_id |-> found.id,
                  contract_status |-> found.status, costs |-> found.costs]
            ELSE [status |-> 200, contract_id |-> found.id,
                  contract_status |-> found.status]

\* GET /eor/contracts/:id/details reads the store
GetContractDetails(provider, id) ==
    /\ contractDetails(contracts, provider, id).status \in {200, 404}
    /\ UNCHANGED vars

\* GET /quotes/compare up to the await of Promise.all; an invalid query is
\* answered 400 at once
CompareStart(q) ==
    IF ~compareQuerySchema(q)
    THEN UNCHANGED vars
    ELSE \E slot \in 1..MaxInflight :
         /\ slot \notin DOMAIN inflight
         /\ \A other \in 1..(slot - 1) : other \in DOMAIN inflight
         /\ IdAvailable
         /\ inflight' = [c \in (DOMAIN inflight) \cup {slot} |->
                IF c = slot THEN [query |-> q, responses |-> EmptyMap]
                ELSE inflight[c]]
         /\ UNCHANGED <<disk, seedLoad, contracts, quotes, timers, nextId, probe>>

\* the body GET /quotes/compare posts to each provider for the query q
comparePayload(q) ==
    [country |-> q.country, salary |-> q.salary, currency |-> q.currency,
     role |-> q.role, start_date |-> sDate]

\* the server answers the request that the comparison in slot sent to the
\* provider p, and the endpoint callback of the comparison normalises it
ProviderRespond(slot, p) ==
    /\ slot \in DOMAIN inflight
    /\ p \notin DOMAIN inflight[slot].responses
    /\ \E rnd \in RandomDraws :
        LET payload == comparePayload(inflight[slot].query)
            r == normalise(p, postEorSync(providers, p, payload, rnd))
        IN inflight' = [inflight EXCEPT ![slot].responses =
                [x \in (DOMAIN @) \cup {p} |-> IF x = p THEN r ELSE @[x]]]
    /\ UNCHANGED <<disk, seedLoad, contracts, quotes, timers, nextId, probe>>

\* the responses of a comparison in the order of the endpoints
responsesOf(c) == [i \in DOMAIN endpoints |-> c.responses[endpoints[i]]]

\* status code of GET /quotes/compare once the three responses are in
compareStatus(responses) == IF someFailed(responses) THEN 404 ELSE 200

\* GET /quotes/compare after Promise.all has resolved
CompareFinish(slot) ==
    /\ slot \in DOMAIN inflight
    /\ DOMAIN inflight[slot].responses = ProviderName
    /\ IF compareStatus(responsesOf(inflight[slot])) = 404
       THEN UNCHANGED <<quotes, nextId>>
       ELSE /\ quotes' = [i \in (DOMAIN quotes) \cup {nextId} |->
                 IF i = nextId
                 THEN quoteRecord(nextId, inflight[slot].query,
                                  responsesOf(inflight[slot]))
                 ELSE quotes[i]]
            /\ nextId' = nextId + 1
    /\ inflight' = [c \in (DOMAIN inflight) \ {slot} |-> inflight[c]]
    /\ UNCHANGED <<disk, seedLoad, contracts, timers, probe>>

\* POST /quotes/:id/review
QuotesReview(id, a) ==
    /\ quotes' = reviewStore(quotes, id, a)
    /\ UNCHANGED <<disk, seedLoad, contracts, timers, inflight, nextId, probe>>

\* POST /mock/quotes/:id/review
AdminReview(id, a) ==
    /\ quotes' = reviewStore(quotes, id, a)
    /\ UNCHANGED <<disk, seedLoad, contracts, timers, inflight, nextId, probe>>

\* status code of GET /quotes/:id
getQuoteStatus(qs, id) == IF id \in DOMAIN qs THEN 200 ELSE 404

\* GET /quotes/:id reads the store
GetQuote(id) ==
    /\ getQuoteStatus(quotes, id) \in {200, 404}
    /\ UNCHANGED vars

Next ==
    \/ Reload
    \/ \E p \in ProviderName, input \in EorInputs, delay \in BOOLEAN :
            PostEor(p, input, delay)
    \/ \E t \in timers : TimerFire(t)
    \/ \E p \in ProviderName, id \in Ids : GetContractDetails(p, id)
    \/ \E q \in CompareQueries : CompareStart(q)
    \/ \E slot \in 1..MaxInflight, p \in ProviderName : ProviderRespond(slot, p)
    \/ \E slot \in 1..MaxInflight : CompareFinish(slot)
    \/ \E id \in Ids, a \in ReviewActions : QuotesReview(id, a)
    \/ \E id \in Ids, a \in ReviewActions : AdminReview(id, a)
    \/ \E id \in Ids : GetQuote(id)

Spec == Init /\ [][Next]_vars

(***************************************************************************)
(* The server beside a data directory that changes between loads, and the  *)
(* server under a fair event loop                                          *)
(***************************************************************************)
\* the files of the data directory are replaced or removed by the operator
DiskChange ==
    /\ \E d \in DiskChoices \ {disk} : disk' = d
    /\ UNCHANGED <<seedLoad, contracts, quotes, timers, inflight, nextId, probe>>

\* the requests that read the tables or the contracts while the directory
\* changes: reloads, delayed and synchronous quotes, timers, contract reads
NextReload ==
    \/ DiskChange
    \/ Reload
    \/ \E p \in ProviderName, input \in EorInputs, delay \in BOOLEAN :
            PostEor(p, input, delay)
    \/ \E t \in timers : TimerFire(t)
    \/ \E p \in ProviderName, id \in Ids : GetContractDetails(p, id)

SpecReload == Init /\ [][NextReload]_vars

\* the event loop runs every callback given to setTimeout: the timer of
\* each contract id fires when it is due
TimerOf(id) == \E t \in timers : t.id = id /\ TimerFire(t)

SpecFair == Spec /\ \A id \in Ids : WF_vars(TimerOf(id))

\* comparisons beside reloads of a data directory that changes
NextCompareReload ==
    \/ DiskChange
    \/ Reload
    \/ \E q \in CompareQueries : CompareStart(q)
    \/ \E slot \in 1..MaxInflight, p \in ProviderName : ProviderRespond(slot, p)
    \/ \E slot \in 1..MaxInflight : CompareFinish(slot)

SpecCompareReload == Init /\ [][NextCompareReload]_vars

(***************************************************************************)
(* The selection rule on its own: chooseProvider applied to three TCEs     *)
(***************************************************************************)
\* TCEs in cents: 50001.00 and 52001.04 (a spread of exactly 4 percent),
\* 51000, 100000 and 104000 (a spread of exactly 4 percent), 101000, 102000,
\* 120000 and 150000
TceChoices ==
    {5000100, 5100000, 5200104,
     10000000, 10100000, 10200000, 10400000, 12000000, 15000000}

\* the costsOnly list of three results with the TCEs tces, in endpoint order
costsOnlyOf(tces) ==
    [i \in DOMAIN endpoints |->
        [provider |-> endpoints[i], costs |-> [tce |-> tces[i]]]]

\* the server itself stays in its initial state while a function is probed
ServerIdle ==
    /\ disk = "good"
    /\ seedLoad = [p \in ProviderName |-> "good"]
    /\ contracts = [p \in ProviderName |-> EmptyMap]
    /\ quotes = EmptyMap
    /\ timers = {}
    /\ inflight = EmptyMap
    /\ nextId = 1

InitSelect ==
    /\ ServerIdle
    /\ probe \in {[fn |-> "select", tces |-> <<a, b, c>>, done |-> FALSE,
                   chosen |-> "none"] :
                  a \in TceChoices, b \in TceChoices, c \in TceChoices}

Select ==
    /\ probe.fn = "select"
    /\ ~probe.done
    /\ probe' = [probe EXCEPT
                    !.done = TRUE,
                    !.chosen = chooseProvider(costsOnlyOf(probe.tces)).provider]
    /\ UNCHANGED <<disk, seedLoad, contracts, quotes, timers, inflight, nextId>>

NextSelect == Select

SpecSelect == InitSelect /\ [][NextSelect]_vars

(***************************************************************************)
(* The cost engine on its own: computeCosts applied to a salary and a seed *)
(***************************************************************************)
\* salaries, and the fields of the seed: rates and fees as a jittered
\* synchronous quote hands them to computeCosts, off the cent grid
CalcSalaries == {1, 80000, 85001, 100003}
CalcTaxRates == {0, 11092, 11200}
CalcBenefits == {8387, 8500}
CalcFees == {0, 358384, 358385, 360000}
CalcProbation == {0, 1, 3}

InitCalc ==
    /\ ServerIdle
    /\ probe \in {[fn |-> "calc", salary |-> salary,
                   seed |-> Seed(sUS, tax, ben, fees, prob, <<>>),
                   done |-> FALSE, costs |-> EmptyMap] :
                  salary \in CalcSalaries, tax \in CalcTaxRates,
                  ben \in CalcBenefits, fees \in CalcFees,
                  prob \in CalcProbation}

Calc ==
    /\ probe.fn = "calc"
    /\ ~probe.done
    /\ probe' = [probe EXCEPT
                    !.done = TRUE,
                    !.costs = computeCosts(probe.salary, probe.seed)]
    /\ UNCHANGED <<disk, seedLoad, contracts, quotes, timers, inflight, nextId>>

NextCalc == Calc

SpecCalc == InitCalc /\ [][NextCalc]_vars

(***************************************************************************)
(* The loader on its own: loadSeedFromDisk applied to a data directory     *)
(***************************************************************************)
LoadUS == Seed(sUS, 11200, 8500, 360000, 3,
               <<Band(sSoftwareEngineer, 70000, 150000)>>)
LoadBr == Seed(sBr, 20000, 10000, 450000, 1,
               <<Band(sSoftwareEngineer, 30001, 60000)>>)
LoadIN == Seed(sIN, 15000, 5000, 200000, 2, <<>>)

\* deel.json: unreadable or not a list of seeds, an empty list, one country,
\* two countries
LoadDeelFiles ==
    {[kind |-> "corrupt"],
     [kind |-> "full", seeds |-> <<>>],
     [kind |-> "full", seeds |-> <<LoadUS>>],
     [kind |-> "full", seeds |-> <<LoadUS, LoadBr>>]}

\* the deltas of a derivation spec: absent, small, and large negative ones
LoadAdjustments ==
    {[x \in {} |-> 0],
     [employer_tax_rate_delta |-> 500, fixed_fees_delta |-> -40000,
      salary_multiplier |-> 105],
     [employer_tax_rate_delta |-> -5000000, benefits_percent_delta |-> -9000,
      fixed_fees_delta |-> -90000000],
     [benefits_percent_delta |-> 100,
      perCountry |-> (sBR :> [employer_tax_rate_delta |-> -20001,
                              benefits_percent_delta |-> -10100,
                              fixed_fees_delta |-> -450000,
                              salary_multiplier |-> 50])]}

\* remote.json and oyster.json: unreadable, a full table (empty, of the
\* countries of deel.json, of other countries), a derivation spec with or
\* without its adjustments field
LoadSecondaryFiles ==
    {[kind |-> "corrupt"],
     [kind |-> "spec"],
     [kind |-> "full", seeds |-> <<>>],
     [kind |-> "full", seeds |-> <<LoadUS>>],
     [kind |-> "full", seeds |-> <<LoadIN, LoadUS>>]}
    \cup {[kind |-> "spec", adjustments |-> a] : a \in LoadAdjustments}

LoadDisks ==
    {[found |-> FALSE]}
    \cup {[found |-> TRUE, exists |-> e, deel |-> d, remote |-> r, oyster |-> o] :
            e \in {[p \in ProviderName |-> TRUE],
                   [p \in ProviderName |-> p # "oyster"]},
            d \in LoadDeelFiles, r \in LoadSecondaryFiles,
            o \in LoadSecondaryFiles}

\* seedStore.providers as the module initialises it
NoTables == [p \in ProviderName |-> EmptyTable]

InitLoad ==
    /\ ServerIdle
    /\ probe \in {[fn |-> "load", disk |-> d, done |-> FALSE,
                   tables |-> NoTables] : d \in LoadDisks}

Load ==
    /\ probe.fn = "load"
    /\ ~probe.done
    /\ probe' = [probe EXCEPT !.done = TRUE,
                              !.tables = loadSeedFromDisk(probe.disk)]
    /\ UNCHANGED <<disk, seedLoad, contracts, quotes, timers, inflight, nextId>>

NextLoad == Load

SpecLoad == InitLoad /\ [][NextLoad]_vars

(***************************************************************************)
(* The validator on its own: validateQuote applied to one input            *)
(***************************************************************************)
\* TCEs in cents: none, margins that the doubles put above, at and below 20,
\* one above 70 percent of the TCE threshold and one above the threshold
ValidateTces == {0, 123456, 139595, 6000000, 13256235, 14000001, 20000001}
ValidateSalaries == {1, 1300, 30000, 58000, 130000}
ValidateCountries == {sBR, sBr, sUS, sUs, sZZ}
ServiceTypeNames == DOMAIN serviceTypes

ValidateInputs ==
    [tce : ValidateTces, salary : ValidateSalaries,
     country : ValidateCountries, serviceType : ServiceTypeNames]

InitValidate ==
    /\ ServerIdle
    /\ probe \in {[fn |-> "validate", input |-> i, done |-> FALSE,
                   result |-> "none"] : i \in ValidateInputs}

Validate ==
    /\ probe.fn = "validate"
    /\ ~probe.done
    /\ probe' = [probe EXCEPT !.done = TRUE,
                              !.result = validateQuote(probe.input)]
    /\ UNCHANGED <<disk, seedLoad, contracts, quotes, timers, inflight, nextId>>

NextValidate == Validate

SpecValidate == InitValidate /\ [][NextValidate]_vars

(***************************************************************************)
(* The role classifier on its own: getServiceTypeFromRole applied to a     *)
(* role title                                                              *)
(***************************************************************************)
sSeniorSoftwareEngineer ==
    <<"S","e","n","i","o","r"," ","S","o","f","t","w","a","r","e"," ","E","n","g","i","n","e","e","r">>
sFreelanceDesigner ==
    <<"F","r","e","e","l","a","n","c","e"," ","D","e","s","i","g","n","e","r">>
RoleFirstWords ==
    {<<"I","n","d","e","p","e","n","d","e","n","t">>,
     <<"S","e","n","i","o","r">>,
     <<"F","r","e","e","l","a","n","c","e">>,
     <<"V","P">>,
     <<"E","x","e","c","u","t","i","v","e">>,
     <<"C","h","i","e","f">>,
     <<"I","n","t","e","r","i","m">>,
     <<"C","E","O">>,
     <<"L","e","a","d">>,
     <<"D","o","c","t","o","r">>,
     <<"M","V","P">>}
RoleSecondWords ==
    {<<"E","n","g","i","n","e","e","r">>,
     <<"D","e","s","i","g","n","e","r">>,
     <<"C","o","n","t","r","a","c","t","o","r">>,
     <<"C","o","n","s","u","l","t","a","n","t">>,
     <<"D","i","r","e","c","t","o","r">>,
     <<"A","c","c","o","u","n","t","a","n","t">>,
     <<"C","T","O">>,
     <<"M","a","n","a","g","e","r">>,
     <<"E","X","E","C","U","T","I","V","E">>,
     <<"F","r","e","e","l","a","n","c","e","r">>}

RoleTitles ==
    {sSeniorSoftwareEngineer, sFreelanceDesigner, sVPofEngineering}
    \cup RoleFirstWords \cup RoleSecondWords
    \cup {a \o <<" ">> \o b : a \in RoleFirstWords, b \in RoleSecondWords}

InitRole ==
    /\ ServerIdle
    /\ probe \in {[fn |-> "role", role |-> r, done |-> FALSE,
                   serviceType |-> "none"] : r \in RoleTitles}

Role ==
    /\ probe.fn = "role"
    /\ ~probe.done
    /\ probe' = [probe EXCEPT !.done = TRUE,
                              !.serviceType = getServiceTypeFromRole(probe.role)]
    /\ UNCHANGED <<disk, seedLoad, contracts, quotes, timers, inflight, nextId>>

NextRole == Role

SpecRole == InitRole /\ [][NextRole]_vars

(***************************************************************************)
(* Properties of the contract store                                        *)
(***************************************************************************)
\* C1: a contract enters the store as pending and without costs; the only
\* change ever made to a stored contract is one step from pending to ready
\* that adds the costs and is made by the timer callback scheduled for it;
\* a ready contract never changes again and no contract is ever removed.
C1_ContractLifecycle ==
    [][\A p \in ProviderName :
        /\ DOMAIN contracts[p] \subseteq DOMAIN contracts'[p]
        /\ \A id \in DOMAIN contracts'[p] :
            LET new == contracts'[p][id]
            IN IF id \notin DOMAIN contracts[p]
               THEN new.status = "pending" /\ "costs" \notin DOMAIN new
               ELSE LET old == contracts[p][id]
                    IN \/ new = old
                       \/ /\ old.status = "pending"
                          /\ "costs" \notin DOMAIN old
                          /\ new.status = "ready"
                          /\ "costs" \in DOMAIN new
                          /\ new.id = old.id /\ new.input = old.input
                          /\ \E t \in timers \ timers' :
                                t.provider = p /\ t.id = id]_vars

\* a contract has become ready with its costs, its timer is gone, and a
\* comparison has stored a record after the contract was created
C1_Witness ==
    \E p \in ProviderName : \E id \in DOMAIN contracts[p] :
        /\ contracts[p][id].status = "ready"
        /\ "costs" \in DOMAIN contracts[p][id]
        /\ timers = {}
        /\ \E qid \in DOMAIN quotes : qid > id

(***************************************************************************)
(* Properties of the quote store                                           *)
(***************************************************************************)
\* C2: a record that a step adds to the quote store has status pending when
\* its requires_manual_review flag is true and approved when it is false;
\* it is never added as rejected.
C2_InitialStatus ==
    [][\A id \in (DOMAIN quotes') \ (DOMAIN quotes) :
        /\ quotes'[id].requires_manual_review => quotes'[id].status = "pending"
        /\ ~quotes'[id].requires_manual_review => quotes'[id].status = "approved"
        /\ quotes'[id].status # "rejected"]_vars

\* one record was created pending and another one approved
C2_Witness ==
    \E i \in DOMAIN quotes : \E j \in DOMAIN quotes :
        /\ quotes[i].requires_manual_review /\ quotes[i].status = "pending"
        /\ ~quotes[j].requires_manual_review /\ quotes[j].status = "approved"

\* C3 as stated: once the status of a record is approved or rejected, no
\* step changes it.
C3_TerminalStates ==
    [][\A id \in DOMAIN quotes :
        quotes[id].status \in {"approved", "rejected"}
            => quotes'[id].status = quotes[id].status]_vars

\* C3 amended: the status of a record never returns to pending; every change
\* of the status of a stored record is made by a review of that record with
\* an accepted action and leads to approved or rejected, also when the record
\* was approved or rejected before.
C3_NoReturnToPending ==
    [][\A id \in DOMAIN quotes :
        /\ id \in DOMAIN quotes'
        /\ quotes'[id].status # quotes[id].status =>
            /\ quotes'[id].status \in {"approved", "rejected"}
            /\ \E a \in ReviewActions :
                /\ reviewAction(a) \in {sApprove, sReject}
                /\ quotes' = [quotes EXCEPT ![id].status = quotes'[id].status]]_vars

\* a record that was created approved is now rejected
C3_Witness ==
    \E id \in DOMAIN quotes :
        ~quotes[id].requires_manual_review /\ quotes[id].status = "rejected"

\* C4: in every reachable quote store, a review of a stored record with an
\* accepted action is answered 200 and leaves the record approved when the
\* action is approve and rejected when it is reject, whatever the status of
\* the record was before, and changes nothing else; so after any sequence of
\* reviews the status is that of the last accepted action.
C4_LastWriteWins ==
    \A id \in DOMAIN quotes : \A a \in ReviewActions :
        reviewAction(a) \in {sApprove, sReject} =>
            /\ reviewCode(quotes, id, a) = 200
            /\ reviewStore(quotes, id, a) =
                [quotes EXCEPT ![id].status =
                    IF reviewAction(a) = sApprove THEN "approved" ELSE "rejected"]

\* a record created pending is now approved and a record created approved is
\* now rejected
C4_Witness ==
    \E i \in DOMAIN quotes : \E j \in DOMAIN quotes :
        /\ quotes[i].requires_manual_review /\ quotes[i].status = "approved"
        /\ ~quotes[j].requires_manual_review /\ quotes[j].status = "rejected"

\* C5 as stated: a review of a stored record whose action is not exactly
\* approve or reject is answered 400 and leaves the quote store unchanged.
C5_ExactAction ==
    \A id \in DOMAIN quotes : \A a \in ReviewActions :
        ~(a.present /\ a.value \in {sApprove, sReject}) =>
            /\ reviewCode(quotes, id, a) = 400
            /\ reviewStore(quotes, id, a) = quotes

\* C5 amended: a review of a stored record whose action, lower-cased, is
\* neither approve nor reject (a missing action counts as the empty string)
\* is answered 400 and leaves the quote store unchanged.
C5_InvalidAction ==
    \A id \in DOMAIN quotes : \A a \in ReviewActions :
        reviewAction(a) \notin {sApprove, sReject} =>
            /\ reviewCode(quotes, id, a) = 400
            /\ reviewStore(quotes, id, a) = quotes

\* a pending record is in the store and a review of it with the action
\* "maybe" is answered 400
C5_Witness ==
    \E id \in DOMAIN quotes :
        /\ quotes[id].status = "pending"
        /\ reviewCode(quotes, id, [present |-> TRUE, value |-> sMaybe]) = 400

\* C6: a review of an id that is not in the quote store is answered 404 for
\* every action, accepted or not, and leaves the quote store as it is.
C6_UnknownId ==
    \A id \in Ids \ DOMAIN quotes : \A a \in ReviewActions :
        /\ reviewCode(quotes, id, a) = 404
        /\ reviewStore(quotes, id, a) = quotes

\* the store holds a record, and an id that is not a quote id (it is the id
\* of a contract) is answered 404 for approve
C6_Witness ==
    /\ DOMAIN quotes # {}
    /\ \E id \in Ids \ DOMAIN quotes :
        /\ \E p \in ProviderName : id \in DOMAIN contracts[p]
        /\ reviewCode(quotes, id, [present |-> TRUE, value |-> sApprove]) = 404

(***************************************************************************)
(* Properties of the comparison                                            *)
(***************************************************************************)
\* a normalised provider result that counts as failed
failedResult(r) == "error" \in DOMAIN r \/ "costs" \notin DOMAIN r

\* C9: a provider whose quote is not answered OK yields a failed result; a
\* comparison that finishes with a failed result adds no record; and a record
\* is added only by a comparison whose three results are all in and all carry
\* costs, the record holding exactly these three results and a chosen
\* provider among them.
C9_AllOrNothing ==
    [][/\ \A slot \in (DOMAIN inflight) \cap (DOMAIN inflight') :
            \A p \in (DOMAIN inflight'[slot].responses)
                        \ (DOMAIN inflight[slot].responses) :
                postEorStatus(providers, p,
                              comparePayload(inflight[slot].query), FALSE) # 200
                    => failedResult(inflight'[slot].responses[p])
       /\ \A slot \in (DOMAIN inflight) \ (DOMAIN inflight') :
            (\E p \in DOMAIN inflight[slot].responses :
                failedResult(inflight[slot].responses[p]))
                    => quotes' = quotes
       /\ \A id \in (DOMAIN quotes') \ (DOMAIN quotes) :
            \E slot \in (DOMAIN inflight) \ (DOMAIN inflight') :
                /\ DOMAIN inflight[slot].responses = ProviderName
                /\ \A p \in ProviderName :
                        ~failedResult(inflight[slot].responses[p])
                /\ quotes'[id].providers = responsesOf(inflight[slot])
                /\ \E i \in DOMAIN endpoints :
                        quotes'[id].chosen_provider = endpoints[i]]_vars

\* the three results of a comparison are in, one failed and another has costs
C9_Witness ==
    \E slot \in DOMAIN inflight :
        /\ DOMAIN inflight[slot].responses = ProviderName
        /\ \E p \in ProviderName : failedResult(inflight[slot].responses[p])
        /\ \E p \in ProviderName : ~failedResult(inflight[slot].responses[p])

(***************************************************************************)
(* Properties of the selection rule                                        *)
(***************************************************************************)
\* the TCE of the provider p among the three TCEs tces
tceOfProvider(tces, p) ==
    tces[CHOOSE i \in DOMAIN endpoints : endpoints[i] = p]

\* C7: the chosen provider is one of the three; when the spread of the three
\* TCEs, (max - min) / min * 100, is at most 4 the chosen provider has the
\* maximum TCE, otherwise it has the minimum TCE; 100000/102000/101000
\* selects 102000 and 100000/150000/120000 selects 100000.
C7_SelectionRule ==
    (probe.fn = "select" /\ probe.done) =>
        LET t == probe.tces
            mx == Max(t[1], Max(t[2], t[3]))
            mn == Min(t[1], Min(t[2], t[3]))
        IN /\ \E i \in DOMAIN endpoints : probe.chosen = endpoints[i]
           /\ (mx - mn) * 100 <= 4 * mn => tceOfProvider(t, probe.chosen) = mx
           /\ (mx - mn) * 100 > 4 * mn => tceOfProvider(t, probe.chosen) = mn
           /\ t = <<10000000, 10200000, 10100000>> => probe.chosen = "remote"
           /\ t = <<10000000, 15000000, 12000000>> => probe.chosen = "deel"

\* C8: the chosen provider has the maximum or the minimum of the three TCEs
\* and is the first provider, in the order deel, remote, oyster, whose TCE
\* is that extreme.
C8_TieBreak ==
    (probe.fn = "select" /\ probe.done) =>
        LET t == probe.tces
            mx == Max(t[1], Max(t[2], t[3]))
            mn == Min(t[1], Min(t[2], t[3]))
            extreme == tceOfProvider(t, probe.chosen)
            first == CHOOSE i \in DOMAIN endpoints :
                        /\ t[i] = extreme
                        /\ \A j \in DOMAIN endpoints : t[j] = extreme => i <= j
        IN /\ extreme \in {mx, mn}
           /\ probe.chosen = endpoints[first]

\* remote and oyster share the maximum within 4 percent and remote is chosen
C8_Witness ==
    /\ probe.fn = "select" /\ probe.done
    /\ probe.tces = <<10000000, 10200000, 10200000>>
    /\ probe.chosen = "remote"

(***************************************************************************)
(* Properties of the cost engine                                           *)
(***************************************************************************)
\* tce minus the sum of the five other rounded fields, in cents
costGap(costs) ==
    costs.tce - (costs.salary + costs.employer_tax + costs.benefits_cost
                 + costs.fixed_fees + costs.termination_amortization)

loadSucceeds(d) ==
    /\ d.found
    /\ \A p \in ProviderName : d.exists[p]
    /\ \A p \in ProviderName : d[p].kind # "corrupt"

\* the sum of the global and the per-country delta of a derivation spec
deltaOf(file, code, name) ==
    LET adj == Field(file, "adjustments", EmptyMap)
        per == Field(Field(adj, "perCountry", EmptyMap), code, EmptyMap)
    IN Field(adj, name, 0) + Field(per, name, 0)

\* C11: in every table built from a derivation spec, for every country of
\* the primary table, employer_tax_rate, benefits_percent and fixed_fees
\* are max(0, base + global delta + per-country delta), so never negative.
C11_DerivedFloor ==
    (probe.fn = "load" /\ probe.done /\ loadSucceeds(probe.disk)) =>
        \A p \in {"remote", "oyster"} :
            probe.disk[p].kind = "spec" =>
                \A code \in DOMAIN probe.tables["deel"] :
                    LET base == probe.tables["deel"][code]
                        derived == probe.tables[p][code]
                        file == probe.disk[p]
                    IN /\ derived.employer_tax_rate =
                            Max(0, base.employer_tax_rate
                                   + deltaOf(file, code, "employer_tax_rate_delta"))
                       /\ derived.benefits_percent =
                            Max(0, base.benefits_percent
                                   + deltaOf(file, code, "benefits_percent_delta"))
                       /\ derived.fixed_fees =
                            Max(0, base.fixed_fees
                                   + deltaOf(file, code, "fixed_fees_delta"))
                       /\ derived.employer_tax_rate >= 0
                       /\ derived.benefits_percent >= 0
                       /\ derived.fixed_fees >= 0

\* a load has derived the remote table with large negative global deltas
\* (US floored at zero) and the oyster table with negative per-country
\* deltas (BR floored at zero, US raised)
C11_Witness ==
    /\ probe.fn = "load"
    /\ probe.done
    /\ loadSucceeds(probe.disk)
    /\ probe.disk.remote.kind = "spec"
    /\ probe.disk.oyster.kind = "spec"
    /\ sBR \in DOMAIN probe.tables["deel"]
    /\ probe.tables["deel"][sUS].employer_tax_rate > 0
    /\ probe.tables["remote"][sUS].employer_tax_rate = 0
    /\ probe.tables["remote"][sUS].fixed_fees = 0
    /\ probe.tables["oyster"][sBR].employer_tax_rate = 0
    /\ probe.tables["oyster"][sUS].benefits_percent = 8600

\* the upper-cased country codes of a list of seeds
codesOf(seeds) == {toUpperCase(seeds[i].country) : i \in DOMAIN seeds}

\* C12 as stated: whatever the adjustment spec of a secondary provider is (a
\* full table or a derivation spec), its table covers exactly the country
\* codes of the primary table of the same load.
C12_SameCountries ==
    (probe.fn = "load" /\ probe.done /\ loadSucceeds(probe.disk)) =>
        \A p \in {"remote", "oyster"} :
            DOMAIN probe.tables[p] = DOMAIN probe.tables["deel"]

\* C12 amended: a table built from a derivation spec covers exactly the
\* country codes of the primary table of the same load; a full table is used
\* as it is and covers the upper-cased country codes of its own entries.
C12_DerivedCountries ==
    (probe.fn = "load" /\ probe.done /\ loadSucceeds(probe.disk)) =>
        /\ DOMAIN probe.tables["deel"] = codesOf(probe.disk.deel.seeds)
        /\ \A p \in {"remote", "oyster"} :
            IF probe.disk[p].kind = "spec"
            THEN DOMAIN probe.tables[p] = DOMAIN probe.tables["deel"]
            ELSE DOMAIN probe.tables[p] = codesOf(probe.disk[p].seeds)

\* a load of a primary table of two countries has derived the remote table
\* from a spec and taken the oyster table from a full table of other
\* countries
C12_Witness ==
    /\ probe.fn = "load"
    /\ probe.done
    /\ loadSucceeds(probe.disk)
    /\ probe.disk.remote.kind = "spec"
    /\ probe.disk.oyster.kind = "full"
    /\ DOMAIN probe.tables["deel"] = {sUS, sBR}
    /\ DOMAIN probe.tables["remote"] = {sUS, sBR}
    /\ DOMAIN probe.tables["oyster"] = {sUS, sIN}

\* C13: after every run of loadSeedFromDisk every provider has at least one
\* country; when the primary table is empty or malformed, or a source is
\* missing or corrupt, all three providers hold the built-in US table.
C13_NeverEmpty ==
    (probe.fn = "load" /\ probe.done) =>
        /\ isSeedDataLoaded(probe.tables)
        /\ (\/ ~loadSucceeds(probe.disk)
            \/ probe.disk.deel.seeds = <<>>)
                => probe.tables = [p \in ProviderName |-> fallbackData]

(***************************************************************************)
(* Properties of reloads and of the deferred transition                    *)
(***************************************************************************)
\* C14: whenever a request handler runs, the tables of the three providers
\* are those of one complete load (the tables built from one content of the
\* directory, or the fallback for all three), never the primary table of
\* one load beside a secondary table of another.
C14_ReloadAtomic ==
    \E d \in DiskChoices : \A p \in ProviderName : providers[p] = Tables[d][p]

\* a delayed quote was computed from the tables of the data directory, the
\* directory was removed and a reload has put the fallback in place of all
\* three tables while the timer of the quote is still pending
C14_Witness ==
    /\ seedLoad = [p \in ProviderName |-> "missing"]
    /\ disk = "missing"
    /\ \E t \in timers :
        /\ t.provider = "remote"
        /\ t.adjusted = Tables["good"]["remote"][sUS]
        /\ t.adjusted # getAdjustedSeed(providers, "remote", sUS).seed

\* the contract id of the provider p is stored with the given status
contractIs(p, id, status) ==
    id \in DOMAIN contracts[p] /\ contracts[p][id].status = status

\* C15: every pending contract keeps its timer until it fires, whatever
\* other requests, reviews and reloads are served, and under a fair event
\* loop every pending contract eventually becomes ready (an id is handed
\* out once, so the contract of an id belongs to one provider).
C15_EventuallyReady ==
    /\ [](\A p \in ProviderName, id \in Ids :
            contractIs(p, id, "pending") =>
                \E t \in timers : t.provider = p /\ t.id = id)
    /\ \A id \in Ids :
            (\E p \in ProviderName : contractIs(p, id, "pending"))
                ~> (\E p \in ProviderName : contractIs(p, id, "ready"))

\* a contract created pending has become ready after a comparison was
\* stored and reviewed
C15_Witness ==
    /\ \E p \in ProviderName : contractIs(p, 1, "ready")
    /\ \E id \in DOMAIN quotes : quotes[id].status = "rejected"

\* the fields of a complete cost breakdown
CostFields ==
    {"salary", "employer_tax", "benefits_cost", "fixed_fees",
     "termination_amortization", "tce"}

\* C16: whatever a reader of a contract is answered, and whatever the store
\* holds, the contract is pending without costs or ready with a complete
\* cost breakdown.
C16_NoPartialContract ==
    \A p \in ProviderName, id \in Ids :
        LET r == contractDetails(contracts, p, id)
        IN r.status = 200 =>
            /\ r.contract_status = contracts[p][id].status
            /\ ("costs" \in DOMAIN r) = ("costs" \in DOMAIN contracts[p][id])
            /\ \/ r.contract_status = "pending" /\ "costs" \notin DOMAIN r
               \/ /\ r.contract_status = "ready"
                  /\ "costs" \in DOMAIN r
                  /\ DOMAIN r.costs = CostFields
                  /\ r.costs = contracts[p][id].costs

\* one contract is read as ready with its costs while the timer of another
\* contract, read as pending, has not fired yet
C16_Witness ==
    \E p \in ProviderName, q \in ProviderName, t \in timers :
        /\ contractDetails(contracts, p, 1).status = 200
        /\ contractDetails(contracts, p, 1).contract_status = "ready"
        /\ contractDetails(contracts, p, 1).costs.tce > 0
        /\ t.id = 2
        /\ contractDetails(contracts, q, 2).status = 200
        /\ contractDetails(contracts, q, 2).contract_status = "pending"

(***************************************************************************)
(* Properties of the validator                                             *)
(***************************************************************************)
validated == probe.fn = "validate" /\ probe.done

\* the margin of a result is below the minimum of the service type
belowMinimum(result, serviceType) ==
    ~fpLeq(fromInt(serviceTypes[serviceType].minimumMargin), result.marginPercent)

\* C17: validateQuote sets requiresManualReview exactly when errors is not
\* empty, or the risk score exceeds the risk-score threshold, or the margin
\* is below the minimum of the service type, or tce exceeds the max-TCE
\* threshold; a result whose margin is below the minimum requires manual
\* review and has at least one error; a result that is not valid requires
\* manual review.
C17_ManualReview ==
    validated =>
        LET r == probe.result
            i == probe.input
        IN /\ r.requiresManualReview =
                  (\/ Len(r.errors) > 0
                   \/ r.riskScore > riskScoreThreshold
                   \/ belowMinimum(r, i.serviceType)
                   \/ i.tce > maxTceThreshold * 100)
           /\ belowMinimum(r, i.serviceType) =>
                  r.requiresManualReview /\ Len(r.errors) >= 1
           /\ ~r.isValid => r.requiresManualReview

\* an executive quote whose margin the doubles put below 20 has been
\* validated: it carries the margin error and requires manual review
C17_Witness ==
    /\ validated
    /\ probe.input.serviceType = "executive"
    /\ probe.input.tce > 0
    /\ belowMinimum(probe.result, "executive")
    /\ \E k \in DOMAIN probe.result.errors :
           probe.result.errors[k] = "margin below minimum"
    /\ probe.result.requiresManualReview

\* C18: calculateRiskScore returns an integer from 0 to 100.
C18_RiskScoreRange ==
    validated => probe.result.riskScore \in 0..100

\* the adjustments of a validated input add up to 95 and the multiplier of
\* its service type is 1.2: the product 114 is returned as 100
C18_Witness ==
    /\ validated
    /\ probe.input.serviceType = "executive"
    /\ probe.input.tce > maxTceThreshold * 100
    /\ probe.input.salary * 1000 < 6 * probe.input.tce
    /\ probe.input.country \in highRiskCountries
    /\ probe.result.riskScore = 100

(***************************************************************************)
(* Properties of the role classifier                                       *)
(***************************************************************************)
\* the keyword occurs in the role, letter case of the role aside
mentions(role, keyword) ==
    \E i \in 1..(Len(role) - Len(keyword) + 1) :
        \A k \in 1..Len(keyword) : LowerChar(role[i + k - 1]) = keyword[k]

executiveTitle(role) ==
    \/ mentions(role, sExecutive) \/ mentions(role, sCeo)
    \/ mentions(role, sCto) \/ mentions(role, sVp)

contractorTitle(role) ==
    \/ mentions(role, sContractor) \/ mentions(role, sFreelance)
    \/ mentions(role, sConsultant)

\* C19: getServiceTypeFromRole checks the lower-cased role in a fixed order
\* and the first matching rule wins: executive if it contains "executive",
\* "ceo", "cto" or "vp"; otherwise contractor if it contains "contractor",
\* "freelance" or "consultant"; otherwise full-time-employee.  "Senior
\* Software Engineer" is full-time-employee, "Freelance Designer" is
\* contractor and "VP of Engineering" is executive.
C19_ServiceTypeOfRole ==
    (probe.fn = "role" /\ probe.done) =>
        /\ probe.serviceType =
              (IF executiveTitle(probe.role) THEN "executive"
               ELSE IF contractorTitle(probe.role) THEN "contractor"
               ELSE "full-time-employee")
        /\ probe.role = sSeniorSoftwareEngineer =>
              probe.serviceType = "full-time-employee"
        /\ probe.role = sFreelanceDesigner => probe.serviceType = "contractor"
        /\ probe.role = sVPofEngineering => probe.serviceType = "executive"

\* a title that matches a keyword of both rules has been classified, as
\* executive
C19_Witness ==
    /\ probe.fn = "role"
    /\ probe.done
    /\ mentions(probe.role, sExecutive)
    /\ mentions(probe.role, sConsultant)
    /\ probe.serviceType = "executive"

(***************************************************************************)
(* Properties of the salary a quote is computed for                        *)
(***************************************************************************)
\* the salary, in cents, of the body of a synchronous quote
quotedSalary(provider, body) ==
    IF provider = "deel" THEN body.costs.salary
    ELSE IF provider = "remote" THEN body.breakdown.salary
    ELSE body.data.salary

\* a whole amount within a tenth of the width of the band around its midpoint
withinBand(band, salary) ==
    /\ salary % 100 = 0
    /\ LET twice == 2 * (salary \div 100) - (band.min_salary + band.max_salary)
       IN 10 * (IF twice < 0 THEN -twice ELSE twice)
             <= 2 * (band.max_salary - band.min_salary)

\* the salary of a quote of the provider for the input follows the rule of
\* the provider, the roles being those of the seed
salaryRule(provider, input, seed, salary) ==
    LET matching == {i \in DOMAIN seed.roles :
                        toLowerCase(seed.roles[i].title) = toLowerCase(input.role)}
    IN IF provider = "deel" \/ matching = {}
       THEN salary = input.salary * 100
       ELSE \E i \in matching : withinBand(seed.roles[i], salary)

syncSalariesFollowRule ==
    \A p \in ProviderName, input \in EorInputs, rnd \in RandomDraws :
        LET r == postEorSync(providers, p, input, rnd)
        IN r.status = 200 =>
              salaryRule(p, input, getAdjustedSeed(providers, p, input.country).seed,
                         quotedSalary(p, r.body))

contractSalariesFollowRule ==
    \A p \in ProviderName : \A id \in DOMAIN contracts[p] :
        LET c == contracts[p][id]
            base == getAdjustedSeed(providers, p, c.input.country)
        IN ("costs" \in DOMAIN c /\ base.found) =>
              salaryRule(p, c.input, base.seed, c.costs.salary)

\* C20: deel alone computes every quote for the salary of the caller,
\* whatever the role; a quote of remote or of oyster is computed for the
\* randomized salary of the band when the role matches a band of the country,
\* letter case aside, a whole amount within a tenth of the width of the band
\* around its midpoint, and for the salary of the caller otherwise.
C20_SalarySelection == syncSalariesFollowRule /\ contractSalariesFollowRule

(***************************************************************************)
(* Properties of the contract stores of the three providers                *)
(***************************************************************************)
\* the contract id was created by a request to the router of the provider
createdThrough(provider, id) ==
    \E q \in ProviderName :
        id \in DOMAIN contracts[q] /\ contracts[q][id].provider = provider

\* C21: the details of (provider, id) are returned exactly when the id was
\* created through that provider, and 404 is returned for an id created
\* through another provider or never created; a step that creates a contract
\* for one provider changes the store of no other provider.
C21_SeparateStores ==
    /\ [](\A p \in ProviderName, id \in Ids :
            LET r == contractDetails(contracts, p, id)
            IN /\ r.status \in {200, 404}
               /\ (r.status = 200) = createdThrough(p, id)
               /\ r.status = 200 => r.contract_id = id)
    /\ [][\A p \in ProviderName :
            DOMAIN contracts'[p] # DOMAIN contracts[p] =>
                \A q \in ProviderName \ {p} : contracts'[q] = contracts[q]]_vars

\* two providers hold one contract each, and each answers 404 for the id of
\* the other
C21_Witness ==
    \E p \in ProviderName, q \in ProviderName, i \in Ids, j \in Ids :
        /\ p # q
        /\ i # j
        /\ contractDetails(contracts, p, i).status = 200
        /\ contractDetails(contracts, q, j).status = 200
        /\ contractDetails(contracts, p, j).status = 404
        /\ contractDetails(contracts, q, i).status = 404

\* the keyword is one of the words of the role, letter case aside
hasWord(role, keyword) ==
    \E i \in 1..(Len(role) - Len(keyword) + 1) :
        /\ \A k \in 1..Len(keyword) : LowerChar(role[i + k - 1]) = keyword[k]
        /\ i = 1 \/ role[i - 1] = " "
        /\ i + Len(keyword) - 1 = Len(role) \/ role[i + Len(keyword)] = " "

\* C22: a role title that contains "contractor" and none of the words
\* executive, CEO, CTO and VP is classified as contractor.
C22_ContractorTitle ==
    (/\ probe.fn = "role"
     /\ probe.done
     /\ mentions(probe.role, sContractor)
     /\ ~hasWord(probe.role, sExecutive)
     /\ ~hasWord(probe.role, sCeo)
     /\ ~hasWord(probe.role, sCto)
     /\ ~hasWord(probe.role, sVp))
        => probe.serviceType = "contractor"

(***************************************************************************)
(* Properties of a comparison beside reloads                               *)
(***************************************************************************)
\* the entry is an answer of its provider to the query under the tables
quotedFrom(tables, query, entry) ==
    \E rnd \in RandomDraws :
        entry = normalise(entry.provider,
                          postEorSync(tables, entry.provider,
                                      comparePayload(query), rnd))

\* C23: the three breakdowns of a quote record are computed from the rate
\* tables of one load, also when a reload runs while the three provider
\* requests are in flight.
C23_OneLoadPerRecord ==
    \A id \in DOMAIN quotes :
        \E d \in DiskChoices :
            \A i \in DOMAIN quotes[id].providers :
                quotedFrom(Tables[d], quotes[id].query, quotes[id].providers[i])

(***************************************************************************)
(* Properties of the costs of a deferred contract                          *)
(***************************************************************************)
\* C24: the costs a contract carries when it becomes ready are computeCosts
\* of the requested salary and of the rate entry of the provider looked up
\* when the contract was created: the timer set at the creation holds that
\* entry, no step changes a timer that is set, and the step that makes the
\* contract ready is the firing of its timer and computes the costs from
\* the salary and the entry the timer holds, whatever the tables are by then.
C24_CostsOfCreationTime ==
    [][/\ \A t \in timers' \ timers :
            /\ t.id \notin DOMAIN contracts[t.provider]
            /\ t.id \in DOMAIN contracts'[t.provider]
            /\ contracts'[t.provider][t.id].input = t.input
            /\ LET base == getAdjustedSeed(providers, t.provider, t.input.country)
               IN base.found /\ t.adjusted = base.seed
       /\ \A p \in ProviderName : \A id \in DOMAIN contracts[p] :
            ("costs" \notin DOMAIN contracts[p][id]
                /\ "costs" \in DOMAIN contracts'[p][id]) =>
                \E t \in timers \ timers' :
                    /\ t.provider = p /\ t.id = id
                    /\ t.input = contracts[p][id].input
                    /\ contracts'[p][id].costs =
                          computeCosts(t.input.salary, t.adjusted)
                    /\ contracts'[p][id].costs.salary = t.input.salary * 100]_vars

\* a contract is ready with costs that the tables now in memory do not
\* give for its input: they are those of the tables of another load
C24_Witness ==
    \E p \in ProviderName : \E id \in DOMAIN contracts[p] :
        LET c == contracts[p][id]
            base == getAdjustedSeed(providers, p, c.input.country)
        IN /\ c.status = "ready"
           /\ base.found
           /\ c.costs # computeCosts(c.input.salary, base.seed)
           /\ \E d \in DiskChoices :
                LET old == getAdjustedSeed(Tables[d], p, c.input.country)
                IN old.found /\ c.costs = computeCosts(c.input.salary, old.seed)

(***************************************************************************)
(* Properties of the country of a comparison                               *)
(***************************************************************************)
\* C25: the risk score does not depend on the letter case of the country
\* code: the input with the country in capitals, which the rate lookup takes
\* for the same country, and with the same costs gets the same score.
C25_CaseOfCountry ==
    validated =>
        /\ \A p \in ProviderName :
              getSeedForCountry(providers, probe.input.country, p)
              = getSeedForCountry(providers, toUpperCase(probe.input.country), p)
        /\ probe.result.riskScore =
              calculateRiskScore(
                  [probe.input EXCEPT !.country = toUpperCase(@)])

(***************************************************************************)
(* Properties of what a review and a comparison change                     *)
(***************************************************************************)
\* C26: a review that changes a record changes the status of that one
\* record and nothing else: its id, creation time, query, provider
\* breakdowns, chosen provider, requires_manual_review flag and validation
\* stay as they are, as do the other records, the contracts and the rate
\* tables; the number of records changes only when a comparison whose three
\* requests succeeded finishes, and then one record is added.
C26_ReviewFrame ==
    [][/\ \A id \in DOMAIN quotes :
            /\ id \in DOMAIN quotes'
            /\ [quotes'[id] EXCEPT !.status = quotes[id].status] = quotes[id]
       /\ (\E id \in DOMAIN quotes : quotes'[id].status # quotes[id].status) =>
            /\ Cardinality({id \in DOMAIN quotes :
                                quotes'[id].status # quotes[id].status}) = 1
            /\ DOMAIN quotes' = DOMAIN quotes
            /\ contracts' = contracts
            /\ timers' = timers
            /\ providers' = providers
       /\ DOMAIN quotes' # DOMAIN quotes =>
            /\ Cardinality(DOMAIN quotes') = Cardinality(DOMAIN quotes) + 1
            /\ \E slot \in (DOMAIN inflight) \ (DOMAIN inflight') :
                    /\ DOMAIN inflight[slot].responses = ProviderName
                    /\ compareStatus(responsesOf(inflight[slot])) = 200]_vars

\* of two records one has been rejected by a review, though it needed no
\* manual review, and the other one is as it was created
C26_Witness ==
    \E i \in DOMAIN quotes, j \in DOMAIN quotes :
        /\ i # j
        /\ ~quotes[i].requires_manual_review
        /\ quotes[i].status = "rejected"
        /\ quotes[i].createdAt = i
        /\ quotes[j].status = initialStatus(quotes[j].requires_manual_review)

(***************************************************************************)
(* Properties of the margin                                                *)
(***************************************************************************)
\* C27: marginPercent is 20 for every tce > 0 and 0 for every tce <= 0; with
\* the minimums 15, 10 and 20 of the service types validateQuote reports no
\* margin-below-minimum error for a positive tce, and with the target 25 it
\* always reports the margin-below-target warning.
C27_MarginIsTwenty ==
    validated =>
        LET r == probe.result
        IN /\ probe.input.tce > 0 => r.marginPercent = fromInt(20)
           /\ probe.input.tce <= 0 => r.marginPercent = Zero
           /\ probe.input.tce > 0 =>
                \A k \in DOMAIN r.errors : r.errors[k] # "margin below minimum"
           /\ \E k \in DOMAIN r.warnings : r.warnings[k] = "margin below target"

(***************************************************************************)
(* Properties of the shapes of the providers                               *)
(***************************************************************************)
\* C28: for each provider and every breakdown of computeCosts with tce > 0,
\* the normalisation of the comparison applied to the response of the shape
\* of the provider gives back the breakdown, in all six fields.
C28_ShapeRoundTrip ==
    (probe.fn = "calc" /\ probe.done /\ probe.costs.tce > 0) =>
        \A p \in ProviderName :
            LET back == normalise(p, [status |-> 200,
                                      body |-> shape(p, probe.costs)])
            IN /\ DOMAIN back = {"provider", "costs"}
               /\ back.provider = p
               /\ DOMAIN back.costs = CostFields
               /\ \A f \in CostFields : back.costs[f] = probe.costs[f]

\* a breakdown whose six amounts are positive and differ from each other
\* has gone through the shape of oyster and back
C28_Witness ==
    /\ probe.fn = "calc"
    /\ probe.done
    /\ \A f \in CostFields : probe.costs[f] > 0
    /\ \A f \in CostFields, g \in CostFields :
           f # g => probe.costs[f] # probe.costs[g]
    /\ "data" \in DOMAIN shape("oyster", probe.costs)
    /\ normalise("oyster", [status |-> 200,
                            body |-> shape("oyster", probe.costs)]).costs
       = probe.costs

=============================================================================
